---- MODULE Spec2Model ----
(***************************************************************************)
(* The Kappa coordinator engine (coordinator/pkg/executor): the per-process *)
(* driver process.Run, the dispatch of coordinator calls (coordcall.go),    *)
(* the RPC intake (rpc.go) and the workload's process and queue tables      *)
(* (workload.go).  Handlers (lambdas) are the environment: an invocation    *)
(* returns any request the wire format admits, crashes, or times out, and   *)
(* RPC requests arrive at any moment.                                       *)
(***************************************************************************)
EXTENDS Integers, Sequences, FiniteSets, TLC

\* ------------------------------------------------------------------ bounds
MaxProcs   == 3   \* processes a workload creates (pids 0..MaxProcs-1)
MaxQueues  == 2   \* queues a workload creates
MaxSeqno   == 1   \* largest sequence number a request or call carries
MaxRPC     == 1   \* RPC requests the endpoint receives over a run
MaxCap     == 2   \* largest max_size of a created queue

\* -------------------------------------------------------- program constants
crashRetries == 3

Pids   == 0 .. (MaxProcs - 1)
Qids   == 0 .. (MaxQueues - 1)
Seqnos == 0 .. MaxSeqno

\* The message-passing example of the documentation: its handler makes five
\* coordinator calls (create_queue, spawn, spawn, wait, and the exit at its
\* return), one request each.
ExampleLen == 5

\* The sequence numbers the history variables count.
HistSeqnos == 0 .. (IF MaxSeqno < ExampleLen THEN ExampleLen - 1 ELSE MaxSeqno)

nullChkID == ""

\* ------------------------------------------------------------ wire values
\* handler.CCResT: the result of a coordinator call (an interface{} value).
Res(kind, str, strs, nums, map) ==
    [kind |-> kind, str |-> str, strs |-> strs, nums |-> nums, map |-> map]
NilRes           == Res("nil", "", <<>>, <<>>, <<>>)
StrRes(v)        == Res("str", v, <<>>, <<>>, <<>>)
RetsRes(rs)      == Res("rets", "", rs, <<>>, <<>>)
ChildPidsRes(ps) == Res("child_pids", "", <<>>, ps, <<>>)
PidsRes(ps)      == Res("pids", "", <<>>, ps, <<>>)
QidRes(q)        == Res("qid", "", <<>>, <<q>>, <<>>)
QidsRes(qs)      == Res("qids", "", <<>>, qs, <<>>)
PredRes(m)       == Res("predRes", "", <<>>, <<>>, m)
\* Mutant: the children of a map_spawn are not given the predecessors' results.
MapArg_NoPred(m, elem) == Res("predRes, elem", elem, <<>>, <<>>, <<>>)
MapArg(m, elem)  == Res("predRes, elem", elem, <<>>, <<>>, m)

\* handler.CoordCall after parsing: one record shape for every operation,
\* the fields an operation does not have keep their zero value.
Call(seqno, op) ==
    [seqno |-> seqno, op |-> op, result |-> "", childChkID |-> "", futurePids |-> <<>>,
     awaitPids |-> <<>>, blocking |-> FALSE, copies |-> 0, pid |-> 0,
     qid |-> 0, maxSize |-> 0, objs |-> <<>>, onCoordinator |-> FALSE,
     elems |-> <<>>, badParams |-> FALSE]
CcExit(n, r)        == [Call(n, "exit") EXCEPT !.result = r]
CcCheckpoint(n)     == Call(n, "checkpoint")
CcSpawn(n, fut, aw, blocking, copies) ==
    [Call(n, "spawn") EXCEPT !.childChkID = "k", !.futurePids = fut,
                             !.awaitPids = aw, !.blocking = blocking,
                             !.copies = copies]
OnCoordinator(cc)  == [cc EXCEPT !.onCoordinator = TRUE]
CcMapSpawn(n, fut, aw, elems) ==
    [Call(n, "map_spawn") EXCEPT !.childChkID = "k", !.futurePids = fut,
                                 !.awaitPids = aw, !.elems = elems]
CcWait(n, pid)      == [Call(n, "wait") EXCEPT !.pid = pid]
CcCreateQueue(n, maxSize, copies) ==
    [Call(n, "create_queue") EXCEPT !.maxSize = maxSize, !.copies = copies]
CcEnqueue(n, qid, objs) == [Call(n, "enqueue") EXCEPT !.qid = qid, !.objs = objs]
CcDequeue(n, qid)   == [Call(n, "dequeue") EXCEPT !.qid = qid]
CcRemapStore(n)     == Call(n, "remap_store")
CcUnknown(n)        == Call(n, "bogus")
\* A call whose params do not unmarshal into the struct of its operation.
BadParams(cc)       == [cc EXCEPT !.badParams = TRUE]

\* The opaque strings of the handlers: objects of a queue, results of exit.
ObjNames == <<"a", "b", "c", "d", "e", "f", "g", "h">>

\* handler.Request
Request(seqno, chkID, calls) ==
    [seqno |-> seqno, chkID |-> chkID, calls |-> calls]

\* handleCCRes
Hr(res, done, err) == [ready |-> TRUE, res |-> res, done |-> done, err |-> err]
NoHr == [ready |-> FALSE, res |-> NilRes, done |-> FALSE, err |-> FALSE]

\* Mutant: an error result is not marked done.
immediateErr_NotDone == Hr(NilRes, FALSE, TRUE)

\* immediateErr(err): immediateRes(nil, true, err)
immediateErr == Hr(NilRes, TRUE, TRUE)

\* ccMap: the recognised operation tags.
ccMap == {"exit", "checkpoint", "spawn", "map_spawn", "wait", "create_queue",
          "enqueue", "dequeue", "remap_store"}


\* ------------------------------------------------------------------ state
VARIABLES
    nextPid,     \* workload.nextPid; pidMap has the pids below it
    panicked,    \* the coordinator died of a Go runtime panic
    pc,          \* where each process's goroutine stands
    s,           \* runState of each driver: res, nextSeqno, chkID
    numCrashes,  \* process.Run's numCrashes
    invokeCh,    \* the outstanding invocation (nil when none) and its arguments
    Done,        \* process.Done is closed
    Ret,         \* process.Ret
    RPC,         \* process.RPC, a channel of capacity 1
    cur,         \* the request a driver is dispatching and its result channel
    start,       \* the arguments a spawn gave to the waiter of each child
    nextQid,     \* workload.nextQid; qidMap has the qids below it
    qcap,        \* capacity of each created queue
    qbuf,        \* content of each queue's channel
    tasks,       \* the ServeHTTP calls so far
    fatalErr,    \* the error a process raised with p.fatal ("" when none)
    hist,        \* history: shape of the outcomes of a driver's invocations
    sinceAccept, \* history: crashed invocations since the last accepted request
    updCount,    \* history: run-state updates per process and request seqno
    execCount,   \* history: executions of a call per process and call seqno
    closeCount,  \* history: close(p.Done) executions per process
    exitArg,     \* history: result parameter of the exit call a process ran
    enqLog,      \* history: values handed to enqueue, per queue and process
    deqLog,      \* history: values dequeue calls returned, per queue and process
    outdatedLog, \* the last request a driver logged as outdated
    ctl          \* workload.Run and the coordinator that called it

procVars  == <<nextPid, panicked, pc, s, numCrashes, invokeCh, Done, Ret, RPC, cur, start,
               fatalErr>>
queueVars == <<nextQid, qcap, qbuf>>
histVars  == <<hist, sinceAccept, updCount, execCount, closeCount,
               exitArg, enqLog, deqLog, outdatedLog>>
vars      == <<procVars, queueVars, tasks, histVars, ctl>>

RunState(res, nextSeqno, chkID) ==
    [res |-> res, nextSeqno |-> nextSeqno, chkID |-> chkID]

\* What an invocation comes to inside common.invoke: whether the event can be
\* marshalled, what the platform's Invoke returns (output, timeout, crash or
\* another error), whether the output is a JSON string, whether that string
\* unmarshals into a Request, and whether every call's seqno is within the
\* request's. Outcome(stage) is the invocation that fails at that stage and
\* at no other; Outcome("") does not fail.
Outcome(stage) ==
    [marshals |-> stage # "marshal",
     platform |-> IF stage \in {"timeout", "crashed", "error"} THEN stage ELSE "output",
     decodes  |-> stage # "decode",
     parses   |-> stage # "parse",
     inRange  |-> stage # "range"]
FailedOutcomes ==
    {Outcome(st) : st \in {"marshal", "timeout", "crashed", "error", "decode", "parse", "range"}}

\* Mutant: an output that is no JSON string counts as a crash of the handler.
invoke_DecodeIsCrash(o) ==
    IF ~o.marshals THEN "other"
    ELSE IF o.platform = "timeout" THEN "timeout"
    ELSE IF o.platform = "crashed" THEN "crashed"
    ELSE IF o.platform = "error" THEN "other"
    ELSE IF ~o.decodes THEN "crashed"
    ELSE IF ~o.parses \/ ~o.inRange THEN "other"
    ELSE ""

\* common.invoke, the error it returns: *TimeoutError, *CrashedError, another
\* error, or none ("").
invoke(o) ==
    IF ~o.marshals THEN "other"
    ELSE IF o.platform = "timeout" THEN "timeout"
    ELSE IF o.platform = "crashed" THEN "crashed"
    ELSE IF o.platform = "error" THEN "other"
    ELSE IF ~o.decodes THEN "other"
    ELSE IF ~o.parses \/ ~o.inRange THEN "other"
    ELSE ""

NoInvoke == [active |-> FALSE, pid |-> 0, seqno |-> 0, chkID |-> nullChkID, res |-> NilRes,
             appEv |-> "", target |-> ""]

\* Mutant: every invocation is started from the initial run-state.
Invoke_FromScratch(pid, st, appEv, target) ==
    [active |-> TRUE, pid |-> pid, seqno |-> 0, chkID |-> nullChkID, res |-> NilRes,
     appEv |-> appEv, target |-> target]

\* Mutant: the application event is not handed on.
Invoke_NoAppEvent(pid, st, appEv, target) ==
    [active |-> TRUE, pid |-> pid, seqno |-> st.nextSeqno, chkID |-> st.chkID,
     res |-> st.res, appEv |-> "", target |-> target]

\* h.InvokeAsync(p.Pid, s.nextSeqno, s.chkID, s.res, appEv, p.Target)
Invoke(pid, st, appEv, target) ==
    [active |-> TRUE, pid |-> pid, seqno |-> st.nextSeqno, chkID |-> st.chkID,
     res |-> st.res, appEv |-> appEv, target |-> target]

NoLog == [via |-> "", seqno |-> 0]

NoStart == [chkID |-> nullChkID, futurePids |-> <<>>, awaitPids |-> <<>>,
            target |-> "", appEv |-> "", mapped |-> FALSE, elem |-> ""]

\* No channel: what qidMap gives for a qid it does not have.
NoQueue == -1

\* workload.Run: CreateProcess(mainProcessName, handler.OnCoordinator) and
\* `go p.Run(nullChkID, appEv, nil)`.
MainStart == [NoStart EXCEPT !.target = "OnCoordinator", !.appEv = "event"]

\* The coordinator before workload.Run has returned.
CtlRunning == [state |-> "running", outcome |-> "", value |-> "", from |-> 0]

NoCur == [req |-> Request(0, nullChkID, <<>>), via |-> "", task |-> 0,
          replied |-> FALSE, calls |-> <<>>, phase |-> "", left |-> <<>>,
          made |-> <<>>, hr |-> NoHr]

\* workload.CreateProcess for the main process, then `go p.Run(nullChkID, appEv, nil)`
\* (workload.Run): pid 0 exists and its driver stands at the top of its loop.
Init ==
    /\ nextPid = 1
    /\ panicked = FALSE
    /\ pc = [p \in Pids |-> IF p = 0 THEN "top" ELSE "absent"]
    /\ s = [p \in Pids |-> RunState(NilRes, 0, nullChkID)]
    /\ numCrashes = [p \in Pids |-> 0]
    /\ invokeCh = [p \in Pids |-> NoInvoke]
    /\ Done = [p \in Pids |-> FALSE]
    /\ Ret = [p \in Pids |-> ""]
    /\ RPC = [p \in Pids |-> <<>>]
    /\ cur = [p \in Pids |-> NoCur]
    /\ start = [p \in Pids |-> IF p = 0 THEN MainStart ELSE NoStart]
    /\ fatalErr = [p \in Pids |-> ""]
    /\ nextQid = 0
    /\ qcap = [q \in Qids |-> NoQueue]
    /\ qbuf = [q \in Qids |-> <<>>]
    /\ tasks = <<>>
    /\ hist = [p \in Pids |-> [kind |-> "crashes", n |-> 0, last |-> "", seqno |-> -1,
                                run |-> 0, ret |-> Outcome("")]]
    /\ sinceAccept = [p \in Pids |-> 0]
    /\ updCount = [p \in Pids |-> [n \in HistSeqnos |-> 0]]
    /\ execCount = [p \in Pids |-> [n \in HistSeqnos |-> 0]]
    /\ closeCount = [p \in Pids |-> 0]
    /\ exitArg = [p \in Pids |-> ""]
    /\ enqLog = [q \in Qids |-> [p \in Pids |-> <<>>]]
    /\ deqLog = [q \in Qids |-> [p \in Pids |-> <<>>]]
    /\ outdatedLog = [p \in Pids |-> NoLog]
    /\ ctl = CtlRunning


\* ----------------------------------------------------------- process driver
Exists(p) == p < nextPid

\* Mutant: the counter is not advanced.
Advance_Stuck(counter) == counter

\* CreateProcess and CreateQueue: `w.nextPid += 1`, `w.nextQid += 1`.
Advance(counter) == counter + 1

\* Mutant: no request is taken to be out of date.
IsOutdated_Never(seqno, nextSeqno) == FALSE

\* Mutant: the comparison the wrong way round.
IsOutdated_Inverted(seqno, nextSeqno) == seqno > nextSeqno

\* The comparison of process.Run (sync and RPC case) and of runState.update:
\* a request below the expected sequence number is out of date.
IsOutdated(seqno, nextSeqno) == seqno < nextSeqno

\* Mutant: the next expected seqno is the request's own.
update_NoIncrement(st, req, res) ==
    IF IsOutdated(req.seqno, st.nextSeqno)
    THEN st
    ELSE RunState(res, req.seqno, req.chkID)

\* Mutant: the checkpoint id of the request is not taken over.
update_KeepChk(st, req, res) ==
    IF IsOutdated(req.seqno, st.nextSeqno)
    THEN st
    ELSE RunState(res, req.seqno + 1, st.chkID)

\* runState.update
update(st, req, res) ==
    IF IsOutdated(req.seqno, st.nextSeqno)
    THEN st
    ELSE RunState(res, req.seqno + 1, req.chkID)

\* Mutant: handleRequest parses every call of the request.
ParsedCalls_All(req, processSeqno) == req.calls

\* handleRequest, the filter: the calls that are not below processSeqno.
ParsedCalls(req, processSeqno) ==
    SelectSeq(req.calls, LAMBDA cc : ~(cc.seqno < processSeqno))

\* parseCoordCall: the operation is not in ccMap, or easyjson.Unmarshal of
\* its params fails.
Unparsable(cc) == cc.op \notin ccMap \/ cc.badParams

\* Mutant: handleRequest parses a call when its turn to run comes, so only the
\* first call is parsed before anything runs.
ParseFails_FirstOnly(req, processSeqno) ==
    /\ ParsedCalls(req, processSeqno) # <<>>
    /\ Unparsable(Head(ParsedCalls(req, processSeqno)))

\* Mutant: handleRequest parses nothing and runs what it is given.
ParseFails_Never(req, processSeqno) == FALSE

\* handleRequest, parseCoordCall of every call that is not filtered out.
ParseFails(req, processSeqno) ==
    \E i \in 1 .. Len(req.calls) :
        /\ ~(req.calls[i].seqno < processSeqno)
        /\ Unparsable(req.calls[i])

\* Mutant: with nothing left to run no result is produced.
Dispatch_NoResult(req, via, task, processSeqno) ==
    LET calls == ParsedCalls(req, processSeqno) IN
    [NoCur EXCEPT !.req = Request(req.seqno, req.chkID, <<>>), !.via = via,
                  !.task = task, !.calls = calls,
                  !.phase = IF calls = <<>> THEN "" ELSE "run"]

\* immediateRes(nil, false, nil) when nothing is left to run, else the result
\* channel of the goroutine that runs the parsed calls in order.
Dispatch(req, via, task, processSeqno) ==
    LET calls == ParsedCalls(req, processSeqno) IN
    [NoCur EXCEPT !.req = Request(req.seqno, req.chkID, <<>>), !.via = via,
                  !.task = task, !.calls = calls,
                  !.phase = IF calls = <<>> THEN "" ELSE "run",
                  !.hr = IF calls = <<>> THEN Hr(NilRes, FALSE, FALSE) ELSE NoHr]

\* Mutant: the goroutine runs the next call whatever the last one produced.
AfterCall_NoBreak(c, hr) ==
    IF Len(c.calls) = 1
    THEN [c EXCEPT !.calls = <<>>, !.phase = "", !.left = <<>>, !.made = <<>>,
                   !.hr = hr]
    ELSE [c EXCEPT !.calls = Tail(c.calls), !.phase = "run", !.left = <<>>,
                   !.made = <<>>]

\* handleRequest's goroutine after the call at the head produced hr:
\* `if res.done || res.err != nil { break }`, and `ch <- res` after the loop.
AfterCall(c, hr) ==
    IF hr.done \/ hr.err \/ Len(c.calls) = 1
    THEN [c EXCEPT !.calls = <<>>, !.phase = "", !.left = <<>>, !.made = <<>>,
                   !.hr = hr]
    ELSE [c EXCEPT !.calls = Tail(c.calls), !.phase = "run", !.left = <<>>,
                   !.made = <<>>]

\* Mutant: would-block is answered like any other error.
HttpReply_NoWouldBlock(res, err) ==
    IF err # "" THEN [status |-> 400, body |-> "error", res |-> NilRes]
    ELSE [status |-> 200, body |-> "json", res |-> res]

\* ServeHTTP after the driver's asyncResponse: would-block gives 202 with an
\* empty body, another error 400, a result 200 with its JSON encoding.
HttpReply(res, err) ==
    IF err = "wouldBlock" THEN [status |-> 202, body |-> "", res |-> NilRes]
    ELSE IF err # "" THEN [status |-> 400, body |-> "error", res |-> NilRes]
    ELSE [status |-> 200, body |-> "json", res |-> res]

NoReply == [status |-> 0, body |-> "", res |-> NilRes]

\* What ServeHTTP looks at before it looks at the request: the method, and
\* whether the body can be read and parsed.
HttpInput(method, readable, parsable) ==
    [method |-> method, readable |-> readable, parsable |-> parsable]
GoodInput == HttpInput("POST", TRUE, TRUE)
HttpInputs == {HttpInput(m, r, b) : m \in {"GET", "POST"}, r, b \in BOOLEAN}

\* Mutant: the method is not looked at.
Precheck_AnyMethod(in, pid, known) ==
    IF ~in.readable THEN 400
    ELSE IF ~in.parsable THEN 400
    ELSE IF ~known THEN 400
    ELSE 0

\* ServeHTTP up to the submission: the status it answers with at once, or 0
\* when it goes on to submit the request to process pid.
Precheck(in, pid, known) ==
    IF in.method # "POST" THEN 405
    ELSE IF ~in.readable THEN 400
    ELSE IF ~in.parsable THEN 400
    ELSE IF ~known THEN 400
    ELSE 0

Replied(t, res, err) == [tasks EXCEPT ![t].reply = HttpReply(res, err)]

\* Loop head reached with `continue` or after update: the select is next when an
\* invocation is outstanding, else InvokeAsync.
LoopHead(p) == IF invokeCh[p].active THEN "select" ELSE "top"

\* History of a driver's invocation outcomes: n crashes and nothing else, n
\* crashes and then one returned request, or anything else; the last outcome
\* and the seqno of its request (-1 without one); the number of crashes since
\* the last timeout.
HistStep(h, outcome, seqno) ==
    LET run == IF outcome = "crashed"
               THEN (IF h.run > crashRetries THEN h.run ELSE h.run + 1)
               ELSE IF outcome = "timeout" THEN 0 ELSE h.run
        k == IF h.kind = "crashes" /\ outcome = "crashed"
             THEN [kind |-> "crashes", n |-> h.n + 1]
             ELSE IF h.kind = "crashes" /\ outcome \in {"request", "blocked"}
             THEN [kind |-> "recovered", n |-> h.n]
             ELSE [kind |-> "other", n |-> 0]
    IN [kind |-> k.kind, n |-> k.n, last |-> outcome, seqno |-> seqno, run |-> run,
        ret |-> Outcome("")]

\* `if invokeCh == nil { invokeCh = h.InvokeAsync(p.Pid, s.nextSeqno, s.chkID, s.res, ...) }`
StartInvocation(p) ==
    /\ ~panicked
    /\ pc[p] = "top"
    /\ ~invokeCh[p].active
    /\ invokeCh' = [invokeCh EXCEPT ![p] = Invoke(p, s[p], start[p].appEv, start[p].target)]
    /\ pc' = [pc EXCEPT ![p] = "select"]
    /\ UNCHANGED <<ctl, nextPid, panicked, s, numCrashes, Done, Ret, RPC, cur, start, fatalErr,
                   queueVars, tasks, hist, sinceAccept, updCount, execCount,
                   closeCount, exitArg, enqLog, deqLog, outdatedLog>>

\* Mutant: the retry bound off by one.
CrashIsFatal_OffByOne(n) == n >= crashRetries

\* The fatal branch of a crashed invocation: `numCrashes > crashRetries`.
CrashIsFatal(n) == n > crashRetries

\* case ir := <-invokeCh, err is a *handler.CrashedError
InvokeCrashed(p) ==
    /\ ~panicked
    /\ pc[p] = "select"
    /\ invokeCh[p].active
    /\ invokeCh' = [invokeCh EXCEPT ![p] = NoInvoke]
    /\ numCrashes' = [numCrashes EXCEPT ![p] = @ + 1]
    /\ IF CrashIsFatal(numCrashes[p] + 1)
       THEN /\ pc' = [pc EXCEPT ![p] = "fatal"]
            /\ fatalErr' = [fatalErr EXCEPT ![p] = "crashed"]
       ELSE /\ pc' = [pc EXCEPT ![p] = "top"]
            /\ UNCHANGED fatalErr
    /\ hist' = [hist EXCEPT ![p] = HistStep(@, "crashed", -1)]
    /\ sinceAccept' = [sinceAccept EXCEPT ![p] = IF @ > crashRetries THEN @ ELSE @ + 1]
    /\ UNCHANGED <<ctl, nextPid, panicked, s, Done, Ret, RPC, cur, start, queueVars, tasks,
                   updCount, execCount, closeCount, exitArg, enqLog,
                   deqLog, outdatedLog>>

\* Mutant: an error that is no crash leaves the crash counter.
ResetCrashes_Never(n) == n

\* `numCrashes = 0` behind the crash branch.
ResetCrashes(n) == 0

\* case ir := <-invokeCh, err is a *handler.TimeoutError
InvokeTimedOut(p) ==
    /\ ~panicked
    /\ pc[p] = "select"
    /\ invokeCh[p].active
    /\ invokeCh' = [invokeCh EXCEPT ![p] = NoInvoke]
    /\ numCrashes' = [numCrashes EXCEPT ![p] = ResetCrashes(@)]
    /\ pc' = [pc EXCEPT ![p] = "top"]
    /\ hist' = [hist EXCEPT ![p] = HistStep(@, "timeout", -1)]
    /\ UNCHANGED <<ctl, nextPid, panicked, s, Done, Ret, RPC, cur, start, fatalErr, queueVars,
                   tasks, sinceAccept, updCount, execCount, closeCount,
                   exitArg, enqLog, deqLog, outdatedLog>>

\* Mutant: a driver that gives up closes its Done as an exit would.
InvokeFailed_ClosesDone(p) ==
    /\ ~panicked
    /\ pc[p] = "select"
    /\ invokeCh[p].active
    /\ invokeCh' = [invokeCh EXCEPT ![p] = NoInvoke]
    /\ numCrashes' = [numCrashes EXCEPT ![p] = ResetCrashes(@)]
    /\ pc' = [pc EXCEPT ![p] = "fatal"]
    /\ fatalErr' = [fatalErr EXCEPT ![p] = "other"]
    /\ Done' = [Done EXCEPT ![p] = TRUE]
    /\ hist' = [hist EXCEPT ![p] = HistStep(@, "other", -1)]
    /\ UNCHANGED <<ctl, nextPid, panicked, s, Ret, RPC, cur, start, queueVars, tasks,
                   sinceAccept, updCount, execCount, closeCount,
                   exitArg, enqLog, deqLog, outdatedLog>>

\* case ir := <-invokeCh, any other error: fatal.
InvokeFailed(p) ==
    /\ ~panicked
    /\ pc[p] = "select"
    /\ invokeCh[p].active
    /\ invokeCh' = [invokeCh EXCEPT ![p] = NoInvoke]
    /\ numCrashes' = [numCrashes EXCEPT ![p] = ResetCrashes(@)]
    /\ pc' = [pc EXCEPT ![p] = "fatal"]
    /\ fatalErr' = [fatalErr EXCEPT ![p] = "other"]
    /\ hist' = [hist EXCEPT ![p] = HistStep(@, "other", -1)]
    /\ UNCHANGED <<ctl, nextPid, panicked, s, Done, Ret, RPC, cur, start, queueVars, tasks,
                   sinceAccept, updCount, execCount, closeCount,
                   exitArg, enqLog, deqLog, outdatedLog>>

\* case ir := <-invokeCh with ir.Err != nil, for an invocation that came to o:
\* the three branches above, taken by the type of the error.
InvokeErred(p, outs) ==
    /\ ~panicked
    /\ pc[p] = "select"
    /\ invokeCh[p].active
    /\ \E o \in outs :
        LET err == invoke(o) IN
        /\ err # ""
        /\ invokeCh' = [invokeCh EXCEPT ![p] = NoInvoke]
        /\ numCrashes' = [numCrashes EXCEPT ![p] =
                              IF err = "crashed" THEN @ + 1 ELSE ResetCrashes(@)]
        /\ IF err = "crashed" /\ CrashIsFatal(numCrashes[p] + 1)
           THEN /\ pc' = [pc EXCEPT ![p] = "fatal"]
                /\ fatalErr' = [fatalErr EXCEPT ![p] = "crashed"]
           ELSE IF err = "other"
           THEN /\ pc' = [pc EXCEPT ![p] = "fatal"]
                /\ fatalErr' = [fatalErr EXCEPT ![p] = "other"]
           ELSE /\ pc' = [pc EXCEPT ![p] = "top"]
                /\ UNCHANGED fatalErr
        /\ hist' = [hist EXCEPT ![p] = [HistStep(@, err, -1) EXCEPT !.ret = o]]
        /\ sinceAccept' = [sinceAccept EXCEPT ![p] =
                               IF err = "crashed" /\ @ <= crashRetries THEN @ + 1 ELSE @]
    /\ UNCHANGED <<ctl, nextPid, panicked, s, Done, Ret, RPC, cur, start, queueVars, tasks,
                   updCount, execCount, closeCount, exitArg, enqLog,
                   deqLog, outdatedLog>>

\* case ir := <-invokeCh, a request with Blocked set: `continue`.
InvokeBlocked(p) ==
    /\ ~panicked
    /\ pc[p] = "select"
    /\ invokeCh[p].active
    /\ invokeCh' = [invokeCh EXCEPT ![p] = NoInvoke]
    /\ pc' = [pc EXCEPT ![p] = "top"]
    /\ hist' = [hist EXCEPT ![p] = HistStep(@, "blocked", -1)]
    /\ UNCHANGED <<ctl, nextPid, panicked, s, numCrashes, Done, Ret, RPC, cur, start, fatalErr,
                   queueVars, tasks, sinceAccept, updCount, execCount,
                   closeCount, exitArg, enqLog, deqLog, outdatedLog>>

\* case ir := <-invokeCh, a request: out of date, unparsable, or dispatched.
InvokeReturned(p, reqs) ==
    /\ ~panicked
    /\ pc[p] = "select"
    /\ invokeCh[p].active
    /\ \E req \in reqs :
        /\ invokeCh' = [invokeCh EXCEPT ![p] = NoInvoke]
        /\ hist' = [hist EXCEPT ![p] = HistStep(@, "request", req.seqno)]
        /\ IF IsOutdated(req.seqno, s[p].nextSeqno)
           THEN /\ pc' = [pc EXCEPT ![p] = "top"]
                /\ outdatedLog' = [outdatedLog EXCEPT ![p] =
                                      [via |-> "sync", seqno |-> req.seqno]]
                /\ UNCHANGED <<cur, fatalErr>>
           ELSE IF ParseFails(req, s[p].nextSeqno)
           THEN /\ pc' = [pc EXCEPT ![p] = "fatal"]
                /\ fatalErr' = [fatalErr EXCEPT ![p] = "parse"]
                /\ UNCHANGED <<cur, outdatedLog>>
           ELSE /\ pc' = [pc EXCEPT ![p] = "dispatch"]
                /\ cur' = [cur EXCEPT ![p] = Dispatch(req, "sync", 0, s[p].nextSeqno)]
                /\ UNCHANGED <<fatalErr, outdatedLog>>
    /\ UNCHANGED <<ctl, nextPid, panicked, s, numCrashes, Done, Ret, RPC, start, queueVars, tasks,
                   sinceAccept, updCount, execCount, closeCount,
                   exitArg, enqLog, deqLog>>

\* ServeHTTP up to `p.RPC <- asyncCall{req, w.rpcTimeout, respChan}`.
ServeHTTP(p, reqs) ==
    /\ ~panicked
    /\ Exists(p)
    /\ Len(tasks) < MaxRPC
    /\ RPC[p] = <<>>
    /\ \E req \in reqs :
        /\ tasks' = Append(tasks, [pid |-> p, input |-> GoodInput, reply |-> NoReply])
        /\ RPC' = [RPC EXCEPT ![p] = <<[req |-> req, task |-> Len(tasks) + 1]>>]
    /\ UNCHANGED <<ctl, nextPid, panicked, pc, s, numCrashes, invokeCh, Done, Ret, cur, start,
                   fatalErr, queueVars, histVars>>

\* case ac := <-p.RPC: out of date (reply nil, nil), unparsable (reply the
\* error, fatal), or dispatched.
\* ServeHTTP, the returns before the submission: rpcErrorf with 405 or 400.
\* Nothing but the HTTP reply is produced.
Rejected(p) ==
    /\ ~panicked
    /\ Len(tasks) < MaxRPC
    /\ \E in \in HttpInputs :
        /\ Precheck(in, p, Exists(p)) # 0
        /\ tasks' = Append(tasks,
                       [pid |-> p, input |-> in,
                        reply |-> [status |-> Precheck(in, p, Exists(p)),
                                   body |-> "error", res |-> NilRes]])
    /\ UNCHANGED <<ctl, procVars, queueVars, histVars>>

RpcArrived(p) ==
    /\ ~panicked
    /\ pc[p] = "select"
    /\ RPC[p] # <<>>
    /\ LET ac == Head(RPC[p]) IN
        /\ RPC' = [RPC EXCEPT ![p] = <<>>]
        /\ IF IsOutdated(ac.req.seqno, s[p].nextSeqno)
           THEN /\ tasks' = Replied(ac.task, NilRes, "")
                /\ outdatedLog' = [outdatedLog EXCEPT ![p] =
                                      [via |-> "rpc", seqno |-> ac.req.seqno]]
                /\ UNCHANGED <<pc, cur, fatalErr>>
           ELSE IF ParseFails(ac.req, s[p].nextSeqno)
           THEN /\ tasks' = Replied(ac.task, NilRes, "parse")
                /\ pc' = [pc EXCEPT ![p] = "fatal"]
                /\ fatalErr' = [fatalErr EXCEPT ![p] = "parse"]
                /\ UNCHANGED <<cur, outdatedLog>>
           ELSE /\ pc' = [pc EXCEPT ![p] = "dispatch"]
                /\ cur' = [cur EXCEPT ![p] =
                              Dispatch(ac.req, "rpc", ac.task, s[p].nextSeqno)]
                /\ UNCHANGED <<tasks, fatalErr, outdatedLog>>
    /\ UNCHANGED <<ctl, nextPid, panicked, s, numCrashes, invokeCh, Done, Ret, start, queueVars,
                   hist, sinceAccept, updCount, execCount, closeCount, exitArg,
                   enqLog, deqLog>>

\* Mutant: after the would-block reply the driver goes back to its select.
RpcTimeout_Returns(p) ==
    /\ ~panicked
    /\ pc[p] = "dispatch"
    /\ cur[p].via = "rpc"
    /\ ~cur[p].replied
    /\ tasks' = Replied(cur[p].task, NilRes, "wouldBlock")
    /\ cur' = [cur EXCEPT ![p].replied = TRUE]
    /\ pc' = [pc EXCEPT ![p] = "select"]
    /\ UNCHANGED <<ctl, nextPid, panicked, s, numCrashes, invokeCh, Done, Ret, RPC, start,
                   fatalErr, queueVars, histVars>>

\* Mutant: the driver waits for the result before it looks at the timer.
RpcTimeout_AfterResult(p) ==
    /\ ~panicked
    /\ pc[p] = "dispatch"
    /\ cur[p].via = "rpc"
    /\ ~cur[p].replied
    /\ cur[p].hr.ready
    /\ tasks' = Replied(cur[p].task, NilRes, "wouldBlock")
    /\ cur' = [cur EXCEPT ![p].replied = TRUE]
    /\ UNCHANGED <<ctl, nextPid, panicked, pc, s, numCrashes, invokeCh, Done, Ret, RPC, start,
                   fatalErr, queueVars, histVars>>

\* case <-time.After(ac.timeout): reply would-block, then `hr = <-resCh`.
RpcTimeout(p) ==
    /\ ~panicked
    /\ pc[p] = "dispatch"
    /\ cur[p].via = "rpc"
    /\ ~cur[p].replied
    /\ tasks' = Replied(cur[p].task, NilRes, "wouldBlock")
    /\ cur' = [cur EXCEPT ![p].replied = TRUE]
    /\ UNCHANGED <<ctl, nextPid, panicked, pc, s, numCrashes, invokeCh, Done, Ret, RPC, start,
                   fatalErr, queueVars, histVars>>

\* `hr = <-resCh` on either path, the RPC reply when none was sent, and the
\* end of the loop body: fatal on error, return on done, else s.update.
ResultArrived(p) ==
    /\ ~panicked
    /\ pc[p] = "dispatch"
    /\ cur[p].hr.ready
    /\ LET c == cur[p]
           hr == c.hr
           st == update(s[p], c.req, hr.res)
           advanced == ~hr.err /\ ~hr.done /\ ~IsOutdated(c.req.seqno, s[p].nextSeqno)
       IN
        /\ tasks' = IF c.via = "rpc" /\ ~c.replied
                    THEN Replied(c.task, hr.res, IF hr.err THEN "call" ELSE "")
                    ELSE tasks
        /\ cur' = [cur EXCEPT ![p] = NoCur]
        /\ IF hr.err
           THEN /\ pc' = [pc EXCEPT ![p] = "fatal"]
                /\ fatalErr' = [fatalErr EXCEPT ![p] = "call"]
                /\ UNCHANGED s
           ELSE IF hr.done
           THEN /\ pc' = [pc EXCEPT ![p] = "exited"]
                /\ UNCHANGED <<s, fatalErr>>
           ELSE /\ s' = [s EXCEPT ![p] = st]
                /\ pc' = [pc EXCEPT ![p] = LoopHead(p)]
                /\ UNCHANGED fatalErr
        /\ updCount' = IF advanced
                       THEN [updCount EXCEPT ![p][c.req.seqno] = @ + 1]
                       ELSE updCount
        /\ sinceAccept' = IF advanced THEN [sinceAccept EXCEPT ![p] = 0]
                          ELSE sinceAccept
    /\ UNCHANGED <<ctl, nextPid, panicked, numCrashes, invokeCh, Done, Ret, RPC, start, queueVars,
                   hist, execCount, closeCount, exitArg, enqLog, deqLog, outdatedLog>>

\* ------------------------------------------------------- coordinator calls
Running(p, op) ==
    /\ pc[p] = "dispatch"
    /\ cur[p].phase = "run"
    /\ Head(cur[p].calls).op = op

\* The history counts up to two executions of a call: one too many.
Executed(p) ==
    [execCount EXCEPT ![p][Head(cur[p].calls).seqno] = IF @ > 1 THEN @ ELSE @ + 1]

\* ccCheckpoint.run
RunCheckpoint(p) ==
    /\ ~panicked
    /\ Running(p, "checkpoint")
    /\ cur' = [cur EXCEPT ![p] = AfterCall(@, Hr(NilRes, FALSE, FALSE))]
    /\ execCount' = Executed(p)
    /\ UNCHANGED <<ctl, nextPid, panicked, pc, s, numCrashes, invokeCh, Done, Ret, RPC, start,
                   fatalErr, queueVars, tasks, hist, sinceAccept,
                   updCount, closeCount, exitArg, enqLog, deqLog, outdatedLog>>

\* Mutant: an exit stores its result as the return value of the main process.
RunExit_Main(p) ==
    /\ ~panicked
    /\ Running(p, "exit")
    /\ Ret' = [Ret EXCEPT ![0] = Head(cur[p].calls).result]
    /\ cur' = [cur EXCEPT ![p].phase = "close"]
    /\ execCount' = Executed(p)
    /\ exitArg' = [exitArg EXCEPT ![p] = Head(cur[p].calls).result]
    /\ UNCHANGED <<ctl, nextPid, panicked, pc, s, numCrashes, invokeCh, Done, RPC, start,
                   fatalErr, queueVars, tasks, hist, sinceAccept,
                   updCount, closeCount, enqLog, deqLog, outdatedLog>>

\* ccExit.run, first statement: `p.Ret = cc.Result`
RunExit(p) ==
    /\ ~panicked
    /\ Running(p, "exit")
    /\ Ret' = [Ret EXCEPT ![p] = Head(cur[p].calls).result]
    /\ cur' = [cur EXCEPT ![p].phase = "close"]
    /\ execCount' = Executed(p)
    /\ exitArg' = [exitArg EXCEPT ![p] = Head(cur[p].calls).result]
    /\ UNCHANGED <<ctl, nextPid, panicked, pc, s, numCrashes, invokeCh, Done, RPC, start,
                   fatalErr, queueVars, tasks, hist, sinceAccept,
                   updCount, closeCount, enqLog, deqLog, outdatedLog>>

\* ccExit.run, `close(p.Done)` and immediateRes(nil, true, nil)
CloseDone(p) ==
    /\ ~panicked
    /\ pc[p] = "dispatch"
    /\ cur[p].phase = "close"
    /\ Done' = [Done EXCEPT ![p] = TRUE]
    /\ closeCount' = [closeCount EXCEPT ![p] = @ + 1]
    /\ cur' = [cur EXCEPT ![p] = AfterCall(@, Hr(NilRes, TRUE, FALSE))]
    /\ UNCHANGED <<ctl, nextPid, panicked, pc, s, numCrashes, invokeCh, Ret, RPC, start,
                   fatalErr, queueVars, tasks, hist, sinceAccept,
                   updCount, execCount, exitArg, enqLog, deqLog, outdatedLog>>

\* ccRemapStore.run: the goroutine's Rename succeeds or fails, and the result
\* is handleCCRes{nil, false, err}.
RunRemapStore(p) ==
    /\ ~panicked
    /\ Running(p, "remap_store")
    /\ \E failed \in BOOLEAN :
          cur' = [cur EXCEPT ![p] = AfterCall(@, Hr(NilRes, FALSE, failed))]
    /\ execCount' = Executed(p)
    /\ UNCHANGED <<ctl, nextPid, panicked, pc, s, numCrashes, invokeCh, Done, Ret, RPC, start,
                   fatalErr, queueVars, tasks, hist, sinceAccept,
                   updCount, closeCount, exitArg, enqLog, deqLog, outdatedLog>>

Range(f) == {f[i] : i \in DOMAIN f}

driverVars == <<s, numCrashes, invokeCh, RPC, fatalErr>>
crashVars  == <<hist, sinceAccept, updCount, outdatedLog>>

\* ccSpawn.run, one turn of its loop: workload.CreateProcess and the `go` of
\* the child's waiter; after the last child, the blocking or immediate return.
RunSpawn(p) ==
    /\ ~panicked
    /\ Running(p, "spawn")
    /\ LET cc    == Head(cur[p].calls)
           child == nextPid
           kids  == IF cc.copies > 0 THEN Append(cur[p].made, child) ELSE <<>>
       IN
        /\ IF cc.copies > 0
           THEN /\ nextPid < MaxProcs
                /\ nextPid' = Advance(nextPid)
                /\ pc' = [pc EXCEPT ![child] = "waiting"]
                /\ start' = [start EXCEPT ![child] =
                                [chkID |-> cc.childChkID,
                                 futurePids |-> cc.futurePids,
                                 awaitPids |-> cc.awaitPids,
                                 target |-> IF cc.onCoordinator
                                            THEN "OnCoordinator" ELSE "OnLambda",
                                 appEv |-> "", mapped |-> FALSE, elem |-> ""]]
           ELSE UNCHANGED <<nextPid, pc, start>>
        /\ cur' = IF Len(kids) < cc.copies
                  THEN [cur EXCEPT ![p].made = kids]
                  ELSE IF cc.blocking
                  THEN [cur EXCEPT ![p].made = kids, ![p].phase = "await"]
                  ELSE [cur EXCEPT ![p] =
                           AfterCall(@, Hr(ChildPidsRes(kids), FALSE, FALSE))]
        /\ execCount' = IF cur[p].made = <<>> THEN Executed(p) ELSE execCount
    /\ UNCHANGED <<ctl, panicked, driverVars, Done, Ret, queueVars, tasks, crashVars,
                   closeCount, exitArg, enqLog, deqLog>>

\* The processes a child's waiter waits for, in the order it does:
\* cc.AwaitPids, then cc.FuturePids.
Deps(c) ==
    IF start[c].mapped
    THEN start[c].futurePids \o start[c].awaitPids
    ELSE start[c].awaitPids \o start[c].futurePids

\* ccMapSpawn.run is still in the loop that creates this child's siblings;
\* the goroutine that starts the children is launched after the loop.
BeingMapped(c) ==
    \E p \in Pids :
        /\ pc[p] = "dispatch"
        /\ cur[p].phase = "run"
        /\ Head(cur[p].calls).op = "map_spawn"
        /\ c \in {cur[p].made[i] : i \in DOMAIN cur[p].made}

\* Mutant: the waiter goes on as soon as the process exists.
Finished_NoWait(pid) == Exists(pid)

\* `<-w.GetProcess(pid).Done` passes for this pid.
Finished(pid) == Exists(pid) /\ Done[pid]

\* The waiter's predRes: for each pid of FuturePids, `predRes[pid] = p.Ret`.
PredResOf(c) == [pid \in Range(start[c].futurePids) |-> Ret[pid]]

\* The waiter of a spawned child got past every wait:
\* `child.Run(cc.ChildChkID, nil, predRes)` begins.
ChildStart(c) ==
    /\ ~panicked
    /\ pc[c] = "waiting"
    /\ ~BeingMapped(c)
    /\ \A i \in 1 .. Len(Deps(c)) : Finished(Deps(c)[i])
    /\ s' = [s EXCEPT ![c] =
                RunState(IF start[c].mapped
                         THEN MapArg(PredResOf(c), start[c].elem)
                         ELSE PredRes(PredResOf(c)), 0, start[c].chkID)]
    /\ numCrashes' = [numCrashes EXCEPT ![c] = 0]
    /\ pc' = [pc EXCEPT ![c] = "top"]
    /\ UNCHANGED <<ctl, nextPid, panicked, invokeCh, Done, Ret, RPC, cur, start,
                   fatalErr, queueVars, tasks, histVars>>

\* The waiter reaches a pid that GetProcess does not know: w.GetProcess(pid)
\* is nil and `.Done` dereferences it.
WaiterPanics(c) ==
    /\ ~panicked
    /\ pc[c] = "waiting"
    /\ ~BeingMapped(c)
    /\ \E i \in 1 .. Len(Deps(c)) :
        /\ ~Exists(Deps(c)[i])
        /\ \A j \in 1 .. (i - 1) : Finished(Deps(c)[j])
    /\ panicked' = TRUE
    /\ UNCHANGED <<ctl, nextPid, pc, driverVars, Done, Ret, cur, start, queueVars,
                   tasks, histVars>>

\* Mutant: the goroutine of a blocking spawn waits for its first child only.
SpawnDone_FirstOnly(p) ==
    /\ ~panicked
    /\ pc[p] = "dispatch"
    /\ cur[p].phase = "await"
    /\ Head(cur[p].calls).op = "spawn"
    /\ cur[p].made # <<>> => Done[cur[p].made[1]]
    /\ cur' = [cur EXCEPT ![p] =
                  AfterCall(@, Hr(RetsRes([i \in 1 .. Len(cur[p].made) |->
                                              Ret[cur[p].made[i]]]), FALSE, FALSE))]
    /\ UNCHANGED <<ctl, nextPid, panicked, pc, driverVars, Done, Ret, start, queueVars,
                   tasks, histVars>>

\* ccMapSpawn.run, one turn of its loop: workload.CreateProcess for the next
\* element; after the last one the goroutine that waits for the predecessors
\* and starts the children is launched, and runs while ccMapSpawn.run goes on
\* to its return.
RunMapSpawn(p) ==
    /\ ~panicked
    /\ Running(p, "map_spawn")
    /\ LET cc    == Head(cur[p].calls)
           n     == Len(cc.elems)
           child == nextPid
           kids  == IF n > 0 THEN Append(cur[p].made, child) ELSE <<>>
       IN
        /\ IF n > 0
           THEN /\ nextPid < MaxProcs
                /\ nextPid' = Advance(nextPid)
                /\ pc' = [pc EXCEPT ![child] = "waiting"]
                /\ start' = [start EXCEPT ![child] =
                                [chkID |-> cc.childChkID,
                                 futurePids |-> cc.futurePids,
                                 awaitPids |-> cc.awaitPids,
                                 target |-> IF cc.onCoordinator
                                            THEN "OnCoordinator" ELSE "OnLambda",
                                 appEv |-> "", mapped |-> TRUE,
                                 elem |-> cc.elems[Len(kids)]]]
           ELSE UNCHANGED <<nextPid, pc, start>>
        /\ cur' = IF Len(kids) < n
                  THEN [cur EXCEPT ![p].made = kids]
                  ELSE [cur EXCEPT ![p].made = kids, ![p].phase = "return"]
        /\ execCount' = IF cur[p].made = <<>> THEN Executed(p) ELSE execCount
    /\ UNCHANGED <<ctl, panicked, driverVars, Done, Ret, queueVars, tasks, crashVars,
                   closeCount, exitArg, enqLog, deqLog>>

\* ccMapSpawn.run, `return immediateRes(childrenPids, false, nil)`; with no
\* element childrenPids is still the nil slice it was declared as, which is
\* encoded as null.
MapSpawnReturns(p) ==
    /\ ~panicked
    /\ pc[p] = "dispatch"
    /\ cur[p].phase = "return"
    /\ Head(cur[p].calls).op = "map_spawn"
    /\ cur' = [cur EXCEPT ![p] =
                  AfterCall(@, Hr(IF cur[p].made = <<>> THEN NilRes
                                  ELSE PidsRes(cur[p].made), FALSE, FALSE))]
    /\ UNCHANGED <<ctl, nextPid, panicked, pc, driverVars, Done, Ret, start, queueVars,
                   tasks, histVars>>

\* ccSpawn.run, the goroutine of a blocking spawn: every child is done, the
\* result is their return values in creation order.
SpawnDone(p) ==
    /\ ~panicked
    /\ pc[p] = "dispatch"
    /\ cur[p].phase = "await"
    /\ Head(cur[p].calls).op = "spawn"
    /\ \A k \in Range(cur[p].made) : Done[k]
    /\ cur' = [cur EXCEPT ![p] =
                  AfterCall(@, Hr(RetsRes([i \in 1 .. Len(cur[p].made) |->
                                              Ret[cur[p].made[i]]]), FALSE, FALSE))]
    /\ UNCHANGED <<ctl, nextPid, panicked, pc, driverVars, Done, Ret, start, queueVars,
                   tasks, histVars>>

\* ccWait.run: unknown pid (immediateErr), target already done, or wait.
RunWait(p) ==
    /\ ~panicked
    /\ Running(p, "wait")
    /\ LET target == Head(cur[p].calls).pid IN
       cur' = IF ~Exists(target)
              THEN [cur EXCEPT ![p] = AfterCall(@, immediateErr)]
              ELSE IF Done[target]
              THEN [cur EXCEPT ![p] =
                       AfterCall(@, Hr(StrRes(Ret[target]), FALSE, FALSE))]
              ELSE [cur EXCEPT ![p].phase = "await"]
    /\ execCount' = Executed(p)
    /\ UNCHANGED <<ctl, nextPid, panicked, pc, driverVars, Done, Ret, start, queueVars,
                   tasks, crashVars, closeCount, exitArg, enqLog, deqLog>>

\* Mutant: the goroutine of a wait call does not wait for Done.
WaitDone_NoWait(p) ==
    /\ ~panicked
    /\ pc[p] = "dispatch"
    /\ cur[p].phase = "await"
    /\ Head(cur[p].calls).op = "wait"
    /\ cur' = [cur EXCEPT ![p] =
                  AfterCall(@, Hr(StrRes(Ret[Head(cur[p].calls).pid]), FALSE, FALSE))]
    /\ UNCHANGED <<ctl, nextPid, panicked, pc, driverVars, Done, Ret, start, queueVars,
                   tasks, histVars>>

\* ccWait.run, the goroutine: `<-pWait.Done`, then pWait.Ret is the result.
WaitDone(p) ==
    /\ ~panicked
    /\ pc[p] = "dispatch"
    /\ cur[p].phase = "await"
    /\ Head(cur[p].calls).op = "wait"
    /\ Done[Head(cur[p].calls).pid]
    /\ cur' = [cur EXCEPT ![p] =
                  AfterCall(@, Hr(StrRes(Ret[Head(cur[p].calls).pid]), FALSE, FALSE))]
    /\ UNCHANGED <<ctl, nextPid, panicked, pc, driverVars, Done, Ret, start, queueVars,
                   tasks, histVars>>

\* ------------------------------------------------------------------ queues
HasQueue(q) == q < nextQid

\* Mutant: one queue whatever copies is.
NumQueues_One(cc) == 1

\* ccCreateQueue.run: one call of w.CreateQueue when copies is -1, else one
\* per turn of `for i := 0; i < cc.Copies; i++`.
NumQueues(cc) == IF cc.copies = -1 THEN 1 ELSE cc.copies

\* ccCreateQueue.run: workload.CreateQueue once (copies = -1) or copies times,
\* one queue a step; `make(chan string, maxSize)` panics on a negative size.
RunCreateQueue(p) ==
    /\ ~panicked
    /\ Running(p, "create_queue")
    /\ LET cc    == Head(cur[p].calls)
           n     == NumQueues(cc)
           qids  == IF n > 0 THEN Append(cur[p].made, nextQid) ELSE <<>>
       IN
        /\ IF n > 0 /\ cc.maxSize < 0
           THEN /\ panicked' = TRUE
                /\ UNCHANGED <<queueVars, cur>>
           ELSE /\ UNCHANGED panicked
                /\ IF n > 0
                   THEN /\ nextQid < MaxQueues
                        /\ nextQid' = Advance(nextQid)
                        /\ qcap' = [qcap EXCEPT ![nextQid] = cc.maxSize]
                        /\ qbuf' = [qbuf EXCEPT ![nextQid] = <<>>]
                   ELSE UNCHANGED queueVars
                /\ cur' = IF Len(qids) < n
                          THEN [cur EXCEPT ![p].made = qids]
                          ELSE [cur EXCEPT ![p] =
                                   AfterCall(@, Hr(IF cc.copies = -1
                                                   THEN QidRes(qids[1])
                                                   ELSE QidsRes(qids), FALSE, FALSE))]
        /\ execCount' = IF cur[p].made = <<>> THEN Executed(p) ELSE execCount
    /\ UNCHANGED <<ctl, nextPid, pc, driverVars, Done, Ret, start, tasks, crashVars,
                   closeCount, exitArg, enqLog, deqLog>>

\* Mutant: a send never waits for room.
CanSend_Always(q) == TRUE

\* Mutant: a send waits although there is room.
CanSend_Never(q) == FALSE

\* `q <- obj` on a buffered channel: there is room.
CanSend(q) == Len(qbuf[q]) < qcap[q]

\* Mutant: the value goes to the front of the buffer.
Sent_Front(q, obj) == <<obj>> \o qbuf[q]

\* The channel after `q <- obj`.
Sent(q, obj) == Append(qbuf[q], obj)

\* Mutant: the value received is the newest one of the buffer.
Received_Last(q) == qbuf[q][Len(qbuf[q])]

\* `<-q` on a buffered channel: the value received and the channel after it.
Received(q) == Head(qbuf[q])
AfterReceive(q) == Tail(qbuf[q])

\* ccEnqueue.run: unknown qid (immediateErr), else the goroutine that sends
\* cc.Objs in order.
RunEnqueue(p) ==
    /\ ~panicked
    /\ Running(p, "enqueue")
    /\ LET cc == Head(cur[p].calls) IN
        /\ cur' = IF ~HasQueue(cc.qid)
                  THEN [cur EXCEPT ![p] = AfterCall(@, immediateErr)]
                  ELSE IF cc.objs = <<>>
                  THEN [cur EXCEPT ![p] = AfterCall(@, Hr(NilRes, FALSE, FALSE))]
                  ELSE [cur EXCEPT ![p].phase = "await", ![p].left = cc.objs]
        /\ enqLog' = IF HasQueue(cc.qid)
                     THEN [enqLog EXCEPT ![cc.qid][p] = @ \o cc.objs]
                     ELSE enqLog
    /\ execCount' = Executed(p)
    /\ UNCHANGED <<ctl, nextPid, panicked, pc, driverVars, Done, Ret, start, queueVars,
                   tasks, crashVars, closeCount, exitArg, deqLog>>

Sending(p, q) ==
    /\ pc[p] = "dispatch"
    /\ cur[p].phase = "await"
    /\ Head(cur[p].calls).op = "enqueue"
    /\ Head(cur[p].calls).qid = q

\* The enqueue goroutine after it sent the head of what is left: the next
\* object, or `ch <- handleCCRes{nil, false, nil}`.
AfterSend(c) ==
    IF Len(c.left) = 1
    THEN AfterCall(c, Hr(NilRes, FALSE, FALSE))
    ELSE [c EXCEPT !.left = Tail(c.left)]

\* ccEnqueue.run, the goroutine: `q <- obj` into the buffer.
EnqueueStep(p) ==
    /\ ~panicked
    /\ \E q \in Qids :
        /\ Sending(p, q)
        /\ CanSend(q)
        /\ qbuf' = [qbuf EXCEPT ![q] = Sent(q, Head(cur[p].left))]
    /\ cur' = [cur EXCEPT ![p] = AfterSend(@)]
    /\ UNCHANGED <<ctl, nextPid, panicked, pc, driverVars, Done, Ret, start, nextQid,
                   qcap, tasks, histVars>>

\* ccDequeue.run: unknown qid (immediateErr), `case obj := <-q` when the
\* buffer has a value, else the goroutine that waits for one.
RunDequeue(p) ==
    /\ ~panicked
    /\ Running(p, "dequeue")
    /\ LET q == Head(cur[p].calls).qid IN
        IF ~HasQueue(q)
        THEN /\ cur' = [cur EXCEPT ![p] = AfterCall(@, immediateErr)]
             /\ UNCHANGED <<qbuf, deqLog>>
        ELSE IF qbuf[q] # <<>>
        THEN /\ cur' = [cur EXCEPT ![p] =
                           AfterCall(@, Hr(StrRes(Received(q)), FALSE, FALSE))]
             /\ qbuf' = [qbuf EXCEPT ![q] = AfterReceive(q)]
             /\ deqLog' = [deqLog EXCEPT ![q][p] = Append(@, Received(q))]
        ELSE /\ cur' = [cur EXCEPT ![p].phase = "await"]
             /\ UNCHANGED <<qbuf, deqLog>>
    /\ execCount' = Executed(p)
    /\ UNCHANGED <<ctl, nextPid, panicked, pc, driverVars, Done, Ret, start, nextQid,
                   qcap, tasks, crashVars, closeCount, exitArg, enqLog>>

Receiving(p, q) ==
    /\ pc[p] = "dispatch"
    /\ cur[p].phase = "await"
    /\ Head(cur[p].calls).op = "dequeue"
    /\ Head(cur[p].calls).qid = q

\* ccDequeue.run, the goroutine: `<-q` from the buffer.
DequeueStep(p) ==
    /\ ~panicked
    /\ \E q \in Qids :
        /\ Receiving(p, q)
        /\ qbuf[q] # <<>>
        /\ cur' = [cur EXCEPT ![p] =
                      AfterCall(@, Hr(StrRes(Received(q)), FALSE, FALSE))]
        /\ qbuf' = [qbuf EXCEPT ![q] = AfterReceive(q)]
        /\ deqLog' = [deqLog EXCEPT ![q][p] = Append(@, Received(q))]
    /\ UNCHANGED <<ctl, nextPid, panicked, pc, driverVars, Done, Ret, start, nextQid,
                   qcap, tasks, crashVars, execCount, closeCount, exitArg, enqLog>>

\* A queue of capacity 0 is an unbuffered channel: `q <- obj` of an enqueue
\* and `<-q` of a waiting dequeue complete together, nothing is stored.
Rendezvous(p, r) ==
    /\ ~panicked
    /\ \E q \in Qids :
        /\ HasQueue(q)
        /\ qcap[q] = 0
        /\ Sending(p, q)
        /\ Receiving(r, q)
        /\ cur' = [cur EXCEPT
                      ![p] = AfterSend(@),
                      ![r] = AfterCall(@, Hr(StrRes(Head(cur[p].left)), FALSE, FALSE))]
        /\ deqLog' = [deqLog EXCEPT ![q][r] = Append(@, Head(cur[p].left))]
    /\ UNCHANGED <<ctl, nextPid, panicked, pc, driverVars, Done, Ret, start, queueVars,
                   tasks, crashVars, execCount, closeCount, exitArg, enqLog>>

\* ------------------------------------------------------ workload controller
\* The exit results that are base64 of a pickle of a Python builtin: what
\* decodeProgram can load.
Pickles == {ObjNames[i] : i \in DOMAIN ObjNames}

\* resultHumanReadable: `python3 -c decodeProgram result` prints the repr of
\* the unpickled object, or fails.
resultHumanReadable(result) ==
    IF result \in Pickles
    THEN [value |-> "repr:" \o result, err |-> FALSE]
    ELSE [value |-> "", err |-> TRUE]

\* Mutant: workload.Run reads the return value without waiting for Done.
RunSeesDone_NoWait ==
    /\ ~panicked
    /\ ctl.state = "running"
    /\ LET r == resultHumanReadable(Ret[0]) IN
       ctl' = [state |-> "returned",
               outcome |-> IF r.err THEN "decode error" ELSE "result",
               value |-> r.value, from |-> 0]
    /\ UNCHANGED <<procVars, queueVars, tasks, histVars>>

\* Mutant: workload.Run waits for every process, not for main alone.
RunSeesDone_WaitsAll ==
    /\ ~panicked
    /\ ctl.state = "running"
    /\ \A p \in Pids : Exists(p) => Done[p]
    /\ LET r == resultHumanReadable(Ret[0]) IN
       ctl' = [state |-> "returned",
               outcome |-> IF r.err THEN "decode error" ELSE "result",
               value |-> r.value, from |-> 0]
    /\ UNCHANGED <<procVars, queueVars, tasks, histVars>>

\* workload.Run, `case <-p.Done: return resultHumanReadable(p.Ret)`
RunSeesDone ==
    /\ ~panicked
    /\ ctl.state = "running"
    /\ Done[0]
    /\ LET r == resultHumanReadable(Ret[0]) IN
       ctl' = [state |-> "returned",
               outcome |-> IF r.err THEN "decode error" ELSE "result",
               value |-> r.value, from |-> 0]
    /\ UNCHANGED <<procVars, queueVars, tasks, histVars>>

\* workload.Run, `case err = <-w.FatalErr: return "", "FATAL: ..."`: the send
\* of process p in p.fatal completes and its driver returns.
RunSeesFatal(p) ==
    /\ ~panicked
    /\ ctl.state = "running"
    /\ pc[p] = "fatal"
    /\ pc' = [pc EXCEPT ![p] = "failed"]
    /\ ctl' = [state |-> "returned", outcome |-> "fatal", value |-> fatalErr[p],
               from |-> p]
    /\ UNCHANGED <<nextPid, panicked, s, numCrashes, invokeCh, Done, Ret, RPC, cur,
                   start, fatalErr, queueVars, tasks, histVars>>

\* coordinator: `defer w.Finalize()` runs when coordinator returns, after
\* w.Run has returned.
Finalize ==
    /\ ~panicked
    /\ ctl.state = "returned"
    /\ ctl' = [ctl EXCEPT !.state = "finalized"]
    /\ UNCHANGED <<procVars, queueVars, tasks, histVars>>

\* ------------------------------------------------------------ environment
ChkIDs == {"a"}

\* The call lists of a request: none, one, or two calls.
CallLists(S) == {<<>>} \cup {<<a>> : a \in S} \cup {<<a, b>> : a, b \in S}

\* Mutant: ParseRequest without its sanity check.
WellFormed_Any(req) == TRUE

\* protocol.ParseRequest admits a request when no call's seqno exceeds the
\* request's.
WellFormed(req) == \A i \in 1 .. Len(req.calls) : req.calls[i].seqno <= req.seqno

RequestsOver(calls) ==
    {req \in {Request(n, c, l) : n \in Seqnos, c \in ChkIDs,
                                 l \in CallLists(calls)} : WellFormed(req)}

\* Requests of a handler that only checkpoints.
CheckpointCalls == {CcCheckpoint(n) : n \in Seqnos}
CheckpointReqs == RequestsOver(CheckpointCalls)


Next ==
    \E p \in Pids :
        \/ StartInvocation(p)
        \/ InvokeTimedOut(p)
        \/ InvokeBlocked(p)
        \/ InvokeReturned(p, CheckpointReqs)
        \/ ServeHTTP(p, CheckpointReqs)
        \/ RpcArrived(p)
        \/ RpcTimeout(p)
        \/ ResultArrived(p)
        \/ RunCheckpoint(p)

Spec == Init /\ [][Next]_vars

\* Requests of a handler that makes one call per request: checkpoint or exit.
ExitCalls == {CcExit(n, ObjNames[n + 1]) : n \in Seqnos}
SingleCallReqs(calls) == {Request(c.seqno, k, <<c>>) : c \in calls, k \in ChkIDs}

\* Requests that list one call twice.
TwiceCallReqs(calls) == {Request(c.seqno, k, <<c, c>>) : c \in calls, k \in ChkIDs}
CrashReqs == SingleCallReqs(CheckpointCalls \cup ExitCalls)

\* A driver whose handler may crash, time out or fail at every invocation.
NextCrash ==
    \E p \in Pids :
        \/ StartInvocation(p)
        \/ InvokeCrashed(p)
        \/ InvokeTimedOut(p)
        \/ InvokeFailed(p)
        \/ InvokeBlocked(p)
        \/ InvokeReturned(p, CrashReqs)
        \/ ServeHTTP(p, CrashReqs)
        \/ RpcArrived(p)
        \/ RpcTimeout(p)
        \/ ResultArrived(p)
        \/ RunCheckpoint(p)
        \/ RunExit(p)
        \/ CloseDone(p)

SpecCrash == Init /\ [][NextCrash]_vars


\* A workload that hands values from a producer to a consumer: main (pid 0)
\* creates a queue and spawns two children, the first child (pid 1) only
\* enqueues, the second (pid 2) only dequeues.
Objs(n) == IF n = 0 THEN <<ObjNames[1], ObjNames[2]>> ELSE <<ObjNames[n + 2]>>
EnqueueCalls == {CcEnqueue(n, 0, Objs(n)) : n \in Seqnos}
DequeueCalls == {CcDequeue(n, 0) : n \in Seqnos}
QueueReqs(p) ==
    IF p = 0
    THEN {Request(0, "a", <<CcCreateQueue(0, m, -1)>>) : m \in 0 .. MaxCap}
             \cup {Request(1, "a", <<CcSpawn(1, <<>>, <<>>, FALSE, 2)>>)}
    ELSE IF p = 1 THEN SingleCallReqs(EnqueueCalls) \cup TwiceCallReqs(EnqueueCalls)
    ELSE SingleCallReqs(DequeueCalls)

Handoff(p) == \E r \in Pids : Rendezvous(p, r)

NextQueue ==
    \E p \in Pids :
        \/ StartInvocation(p)
        \/ InvokeReturned(p, QueueReqs(p))
        \/ ResultArrived(p)
        \/ RunSpawn(p)
        \/ ChildStart(p)
        \/ RunCreateQueue(p)
        \/ RunEnqueue(p)
        \/ EnqueueStep(p)
        \/ RunDequeue(p)
        \/ DequeueStep(p)
        \/ Handoff(p)

SpecQueue == Init /\ [][NextQueue]_vars

\* A workload of dependent processes: main (pid 0) spawns a first child and
\* then a second one that depends on the first, waits for the first child, or
\* exits; a child exits, with a result that depends on the call. MaxProcs is
\* a pid no process ever has.
SpawnCalls ==
    {CcSpawn(1, <<1>>, <<>>, FALSE, 1), CcSpawn(1, <<>>, <<1>>, FALSE, 1),
     CcSpawn(1, <<1, MaxProcs>>, <<>>, FALSE, 1), CcWait(1, 1), CcExit(1, "m")}
SpawnReqs(p) ==
    IF p = 0
    THEN {Request(0, "a", <<CcSpawn(0, <<>>, <<>>, b, 1)>>) : b \in BOOLEAN}
             \cup {Request(1, "a", <<c>>) : c \in SpawnCalls}
    ELSE RequestsOver(ExitCalls)

NextSpawn ==
    \E p \in Pids :
        \/ StartInvocation(p)
        \/ InvokeReturned(p, SpawnReqs(p))
        \/ ResultArrived(p)
        \/ RunExit(p)
        \/ CloseDone(p)
        \/ RunSpawn(p)
        \/ ChildStart(p)
        \/ WaiterPanics(p)
        \/ SpawnDone(p)
        \/ RunWait(p)
        \/ WaitDone(p)

SpecSpawn == Init /\ [][NextSpawn]_vars

\* One process whose handler sends its requests both ways, each with one call:
\* a checkpoint, an exit, or a wait for a pid that no process has.
RpcCalls == CheckpointCalls \cup ExitCalls \cup {CcWait(n, MaxProcs) : n \in Seqnos}
RpcReqs == {Request(c.seqno, k, <<c>>) : c \in RpcCalls, k \in {"a", "b"}}

NextRpc ==
    \E p \in Pids :
        \/ StartInvocation(p)
        \/ InvokeBlocked(p)
        \/ InvokeReturned(p, RpcReqs)
        \/ ServeHTTP(p, RpcReqs)
        \/ RpcArrived(p)
        \/ RpcTimeout(p)
        \/ ResultArrived(p)
        \/ RunCheckpoint(p)
        \/ RunExit(p)
        \/ CloseDone(p)
        \/ RunWait(p)

SpecRpc == Init /\ [][NextRpc]_vars

\* The same process under fair scheduling: every goroutine that can take a
\* step takes it, a handler invocation always comes back, and the `select` of
\* process.Run, which picks at random among its ready cases, does not pass
\* over a waiting RPC forever.
RpcFairness ==
    \A p \in Pids :
        /\ WF_vars(StartInvocation(p))
        /\ WF_vars(InvokeBlocked(p) \/ InvokeReturned(p, RpcReqs))
        /\ SF_vars(RpcArrived(p))
        /\ WF_vars(ResultArrived(p))
        /\ WF_vars(RunCheckpoint(p))
        /\ WF_vars(RunExit(p))
        /\ WF_vars(CloseDone(p))
        /\ WF_vars(RunWait(p))

SpecRpcFair == SpecRpc /\ RpcFairness

\* A workload whose processes fail: main (pid 0) spawns two children, one of
\* them on the coordinator, then exits (with a result that decodes or with
\* one that does not) or waits for a pid no process has; a child waits for
\* such a pid or exits; any invocation may fail with an error that is neither
\* a crash nor a timeout.
FatalReqs(p) ==
    IF p = 0
    THEN {Request(0, "a", <<CcSpawn(0, <<>>, <<>>, FALSE, 2)>>),
          Request(0, "a", <<OnCoordinator(CcSpawn(0, <<>>, <<>>, FALSE, 2))>>),
          Request(0, "a", <<CcSpawn(0, <<>>, <<>>, TRUE, 2)>>),
          Request(1, "a", <<CcExit(1, "a")>>),
          Request(1, "a", <<CcExit(1, "not base64")>>),
          Request(1, "a", <<CcWait(1, MaxProcs)>>)}
    ELSE {Request(0, "a", <<CcWait(0, MaxProcs)>>),
          Request(0, "a", <<CcExit(0, ObjNames[p + 1])>>)}

NextFatal ==
    \/ \E p \in Pids :
        \/ StartInvocation(p)
        \/ InvokeFailed(p)
        \/ InvokeReturned(p, FatalReqs(p))
        \/ ResultArrived(p)
        \/ RunSpawn(p)
        \/ ChildStart(p)
        \/ SpawnDone(p)
        \/ RunWait(p)
        \/ RunExit(p)
        \/ CloseDone(p)
        \/ RunSeesFatal(p)
    \/ RunSeesDone
    \/ Finalize

SpecFatal == Init /\ [][NextFatal]_vars

\* The same workload under fair scheduling: every goroutine that can take a
\* step takes it, and a handler invocation always comes back.
FatalFairness ==
    /\ \A p \in Pids :
        /\ WF_vars(StartInvocation(p))
        /\ WF_vars(InvokeFailed(p) \/ InvokeReturned(p, FatalReqs(p)))
        /\ WF_vars(ResultArrived(p))
        /\ WF_vars(RunSpawn(p))
        /\ WF_vars(ChildStart(p))
        /\ WF_vars(SpawnDone(p))
        /\ WF_vars(RunWait(p))
        /\ WF_vars(RunExit(p))
        /\ WF_vars(CloseDone(p))
        /\ WF_vars(RunSeesFatal(p))
    /\ WF_vars(RunSeesDone)
    /\ WF_vars(Finalize)

SpecFatalFair == SpecFatal /\ FatalFairness

\* ------------------------------------------------------------------ claims

\* C1: for every process and sequence number s, at most one run-state
\* transition is caused by a request with req.seqno = s, whatever the
\* interleaving of invocation returns, RPC deliveries, timeouts and restarts;
\* and a request the driver logs as outdated leaves the run-state as it is
\* (a synchronous seqno s after an accepted RPC seqno s: nextSeqno stays s+1).
C1_AtMostOnceTransition ==
    /\ [](\A p \in Pids : \A n \in HistSeqnos : updCount[p][n] <= 1)
    /\ [][\A p \in Pids :
            outdatedLog'[p] # outdatedLog[p]
                => /\ s'[p] = s[p]
                   /\ updCount'[p] = updCount[p]
                   /\ outdatedLog'[p].seqno < s[p].nextSeqno]_vars

\* An RPC with seqno 0 was accepted and answered, the state advanced once to
\* nextSeqno = 1, and a synchronous request with seqno 0 was then discarded.
C1_Witness ==
    \E p \in Pids :
        /\ s[p].nextSeqno = 1
        /\ updCount[p][0] = 1
        /\ outdatedLog[p].via = "sync"
        /\ outdatedLog[p].seqno = 0
        /\ \E t \in 1 .. Len(tasks) : tasks[t].pid = p /\ tasks[t].reply.status = 200

C8_CrashBound ==
    \A p \in Pids :
        /\ hist[p].kind = "crashes"
              => /\ hist[p].n <= crashRetries + 1
                 /\ (fatalErr[p] = "crashed") <=> (hist[p].n = crashRetries + 1)
                 /\ hist[p].n = crashRetries + 1
                       => pc[p] = "fatal" /\ ~invokeCh[p].active
                 /\ (hist[p].n <= crashRetries /\ pc[p] = "top")
                       => ~invokeCh[p].active /\ ENABLED StartInvocation(p)
        /\ hist[p].kind = "recovered"
              => hist[p].n <= crashRetries /\ fatalErr[p] # "crashed"

\* The 4th crash in a row of a handler that never did anything else.
C8_Witness ==
    \E p \in Pids :
        /\ hist[p].kind = "crashes"
        /\ hist[p].n = crashRetries + 1
        /\ fatalErr[p] = "crashed"
        /\ pc[p] = "fatal"

\* C9: an accepted request between crashes resets the consecutive-crash
\* count: the crash error is fatal only after more than crashRetries crashed
\* invocations with no accepted request in between.
C9_AcceptResetsCrashes ==
    \A p \in Pids : fatalErr[p] = "crashed" => sinceAccept[p] > crashRetries

\* ----------------------------------------------------------- queue claims
IsPrefix(a, b) == Len(a) <= Len(b) /\ SubSeq(b, 1, Len(a)) = a

\* What process p has sent to queue q so far: everything its enqueue calls
\* asked for, less what its running enqueue has not sent yet.
SentBy(q, p) ==
    LET asked == enqLog[q][p]
        rest  == IF Sending(p, q) THEN Len(cur[p].left) ELSE 0
    IN SubSeq(asked, 1, Len(asked) - rest)

\* In this step process p completes the send of one element to queue q.
SendCompletes(p, q) == Sending(p, q) /\ cur'[p] # cur[p]

\* In this step process p completes a dequeue from queue q.
ReceiveCompletes(p, q) == deqLog'[q][p] # deqLog[q][p]

\* C5: on a queue with one producer (pid 1) and one consumer (pid 2), the
\* values the consumer's dequeue calls returned are a prefix of the values the
\* producer enqueued, call after call and in the order of each call's objs;
\* what the producer has sent is exactly what was dequeued followed by what
\* the queue still holds, so nothing is lost, duplicated or reordered.
C5_DequeueIsPrefix ==
    \A q \in Qids :
        HasQueue(q) =>
            /\ IsPrefix(deqLog[q][2], enqLog[q][1])
            /\ deqLog[q][2] \o qbuf[q] = SentBy(q, 1)

\* The consumer has dequeued two values of the three that two enqueue calls
\* of the producer asked for.
C5_Witness ==
    /\ HasQueue(0)
    /\ Len(enqLog[0][1]) = 3
    /\ Len(deqLog[0][2]) = 2

\* C6 as stated: the stored elements never exceed max_size, an enqueue of one
\* element never completes while the queue holds max_size elements, a dequeue
\* never completes while the queue is empty, the capacity never changes.
C6_BlocksWhenFullOrEmpty ==
    /\ [](\A q \in Qids : HasQueue(q) => Len(qbuf[q]) <= qcap[q])
    /\ [][\A q \in Qids :
             HasQueue(q) =>
                 /\ qcap'[q] = qcap[q]
                 /\ \A p \in Pids :
                        /\ SendCompletes(p, q) => Len(qbuf[q]) # qcap[q]
                        /\ ReceiveCompletes(p, q) => qbuf[q] # <<>>]_vars

\* C6, amended: the stored elements never exceed max_size and the capacity
\* never changes; on a queue with max_size >= 1 an enqueue of one element
\* completes only while fewer than max_size elements are stored and a dequeue
\* only while the queue is not empty, and it returns the oldest stored
\* element; on a queue with max_size = 0 nothing is ever stored, and an
\* enqueue of one element completes only in the step in which a dequeue
\* completes with that element, and a dequeue only in such a step.
C6_CapacityAndHandoff ==
    /\ [](\A q \in Qids : HasQueue(q) => Len(qbuf[q]) <= qcap[q])
    /\ [][\A q \in Qids :
             HasQueue(q) =>
                 /\ qcap'[q] = qcap[q]
                 /\ \A p \in Pids :
                        /\ (SendCompletes(p, q) /\ qcap[q] >= 1)
                               => /\ Len(qbuf[q]) < qcap[q]
                                  /\ qbuf'[q] = Append(qbuf[q], Head(cur[p].left))
                        /\ (ReceiveCompletes(p, q) /\ qcap[q] >= 1)
                               => /\ qbuf[q] # <<>>
                                  /\ deqLog'[q][p] = Append(deqLog[q][p], Head(qbuf[q]))
                                  /\ qbuf'[q] = Tail(qbuf[q])
                        /\ (SendCompletes(p, q) /\ qcap[q] = 0)
                               => \E r \in Pids \ {p} :
                                      deqLog'[q][r] =
                                          Append(deqLog[q][r], Head(cur[p].left))
                        /\ (ReceiveCompletes(p, q) /\ qcap[q] = 0)
                               => \E r \in Pids \ {p} :
                                      /\ SendCompletes(r, q)
                                      /\ deqLog'[q][p] =
                                             Append(deqLog[q][p], Head(cur[r].left))]_vars

\* A queue of capacity 0 through which a value has been handed over.
C6_Witness ==
    /\ HasQueue(0)
    /\ qcap[0] = 0
    /\ qbuf[0] = <<>>
    /\ deqLog[0][2] # <<>>

\* ------------------------------------------------------- call-level claims
\* C2: for every process and every call sequence number c, over all the
\* requests the handler delivers and every call listed inside one request,
\* the side effect of a call with seqno c is executed at most once.
C2_CallAtMostOnce ==
    \A p \in Pids : \A c \in HistSeqnos : execCount[p][c] <= 1

\* --------------------------------------------------- process-result claims
\* The return values a spawn waiter hands to child c: the result parameter of
\* the exit call of each process in future_pids.
ExpectedPredRes(c) ==
    PredRes([pid \in Range(start[c].futurePids) |-> exitArg[pid]])

\* In this step the last call of p's request, an `op`, produces its result.
Returns(p, op) ==
    /\ pc[p] = "dispatch"
    /\ cur[p].calls # <<>>
    /\ Head(cur[p].calls).op = op
    /\ cur'[p].hr.ready
    /\ ~cur'[p].hr.err

\* C4: Done of a process is closed at most once; when it is closed the
\* return value has been written already; from then on Done stays closed and
\* the return value stays the result parameter of the exit call that closed
\* it; and that is the value every waiter reads once it has seen Done closed:
\* a wait call, a blocking spawn, the waiter of a spawned child.
C4_DoneOnceRetFinal ==
    /\ [](\A p \in Pids :
             /\ closeCount[p] <= 1
             /\ Done[p] => closeCount[p] = 1 /\ Ret[p] = exitArg[p])
    /\ [][\A p \in Pids :
             /\ Done[p] => Done'[p] /\ Ret'[p] = Ret[p] /\ exitArg'[p] = exitArg[p]
             /\ (~Done[p] /\ Done'[p]) => Ret[p] = exitArg[p] /\ Ret'[p] = Ret[p]
             /\ Returns(p, "wait")
                    => /\ Done[Head(cur[p].calls).pid]
                       /\ cur'[p].hr.res = StrRes(exitArg[Head(cur[p].calls).pid])
             /\ (Returns(p, "spawn") /\ Head(cur[p].calls).blocking)
                    => /\ \A k \in Range(cur[p].made) : Done[k]
                       /\ cur'[p].hr.res =
                              RetsRes([i \in 1 .. Len(cur[p].made) |->
                                          exitArg[cur[p].made[i]]])
             /\ (pc[p] = "waiting" /\ pc'[p] # "waiting")
                    => /\ \A d \in Range(Deps(p)) : Exists(d) /\ Done[d]
                       /\ s'[p].res = ExpectedPredRes(p)]_vars

\* Main's wait for its first child has returned the child's return value.
C4_Witness ==
    /\ Done[1]
    /\ Ret[1] # ""
    /\ s[0].nextSeqno = 2
    /\ s[0].res = StrRes(Ret[1])

\* C7: a spawned child that has begun (its driver runs, ran or is about to
\* start its first invocation) has every process of await_pids and of
\* future_pids finished, and until its first accepted request the result its
\* invocations are given is the map from each pid of future_pids to the
\* result parameter of that process's exit call.
C7_ChildStartsAfterDeps ==
    \A c \in Pids \ {0} :
        pc[c] \notin {"absent", "waiting"} =>
            /\ \A d \in Range(start[c].awaitPids) \cup Range(start[c].futurePids) :
                   Exists(d) /\ Done[d]
            /\ (\A n \in HistSeqnos : updCount[c][n] = 0)
                   => /\ s[c].res = ExpectedPredRes(c)
                      /\ invokeCh[c].active
                             => /\ invokeCh[c].seqno = 0
                                /\ invokeCh[c].res = ExpectedPredRes(c)

\* The second child, spawned with future_pids = [1], is in its first
\* invocation and was given the first child's return value.
C7_Witness ==
    /\ start[2].futurePids = <<1>>
    /\ Done[1]
    /\ Ret[1] # ""
    /\ invokeCh[2].active
    /\ invokeCh[2].res = PredRes([pid \in {1} |-> Ret[1]])

\* ---------------------------------------------------------- RPC claims
\* In this step the driver of p answers its RPC with would-block.
TimesOut(p) ==
    /\ pc[p] = "dispatch"
    /\ cur[p].via = "rpc"
    /\ ~cur[p].replied
    /\ cur'[p].replied

\* In this step the driver of p receives the result of an RPC request that
\* it has answered with would-block.
LateResult(p) ==
    /\ pc[p] = "dispatch"
    /\ cur[p].via = "rpc"
    /\ cur[p].replied
    /\ pc'[p] # "dispatch"

\* C10 as stated: when the calls of an accepted RPC request give no result
\* within rpcTimeout the caller gets 202 with an empty body and the calls go
\* on; when their result arrives, lastResult is set to it, nextSeqno becomes
\* req.seqno + 1 and chkID becomes req.chk_id.
C10_LateResultApplied ==
    [][\A p \in Pids :
          /\ TimesOut(p)
                 => /\ tasks'[cur[p].task].reply.status = 202
                    /\ tasks'[cur[p].task].reply.body = ""
                    /\ cur'[p] = [cur[p] EXCEPT !.replied = TRUE]
          /\ LateResult(p)
                 => s'[p] = RunState(cur[p].hr.res, cur[p].req.seqno + 1,
                                     cur[p].req.chkID)]_vars

\* C10, amended: when the calls of an accepted RPC request give no result
\* within rpcTimeout the caller gets 202 with an empty body and the calls go
\* on; the reply is not changed afterwards; when their result arrives and is
\* neither an error nor done, lastResult is set to it, nextSeqno becomes
\* req.seqno + 1 and chkID becomes req.chk_id; when it is an error the driver
\* raises it as fatal, when it is done (exit) the driver returns, and in both
\* cases the run-state stays as it was.
C10_LateResultOutcome ==
    [][\A p \in Pids :
          /\ TimesOut(p)
                 => /\ tasks'[cur[p].task].reply.status = 202
                    /\ tasks'[cur[p].task].reply.body = ""
                    /\ cur'[p] = [cur[p] EXCEPT !.replied = TRUE]
                    /\ s'[p] = s[p]
          /\ LateResult(p)
                 => /\ cur[p].hr.ready
                    /\ tasks' = tasks
                    /\ tasks[cur[p].task].reply.status = 202
                    /\ IF cur[p].hr.err
                       THEN s'[p] = s[p] /\ pc'[p] = "fatal" /\ fatalErr'[p] = "call"
                       ELSE IF cur[p].hr.done
                       THEN s'[p] = s[p] /\ pc'[p] = "exited"
                       ELSE /\ s'[p] = RunState(cur[p].hr.res, cur[p].req.seqno + 1,
                                                cur[p].req.chkID)
                            /\ cur[p].req.seqno >= s[p].nextSeqno
                            /\ pc'[p] \in {"top", "select"}]_vars

\* An RPC request with seqno 1 and chk_id b was answered with would-block and
\* its result has been applied; no invocation has returned a request.
C10_Witness ==
    /\ tasks # <<>>
    /\ tasks[1].pid = 0
    /\ tasks[1].reply.status = 202
    /\ s[0] = RunState(NilRes, 2, "b")
    /\ hist[0].kind = "crashes"
    /\ outdatedLog[0] = NoLog

\* ------------------------------------------------------- RPC reply claims
\* The t-th ServeHTTP call has put its request into the intake channel.
Submitted(t) == t <= Len(tasks)

\* The t-th ServeHTTP call has received a reply on its response channel.
Answered(t) == Submitted(t) /\ tasks[t].reply # NoReply

\* C11: every request that ServeHTTP puts into a process's RPC intake channel
\* is eventually answered on its response channel, whatever the state of the
\* addressed driver (at its select, waiting for a call's result, returned
\* after exit or after a fatal error).
C11_EveryRpcAnswered ==
    \A t \in 1 .. MaxRPC : Submitted(t) ~> Answered(t)

\* --------------------------------------------------------- shared queue
\* The two objects process p enqueues with one call; no two processes
\* enqueue the same object.
SharedObjs(p) == <<ObjNames[2 * p + 1], ObjNames[2 * p + 2]>>

\* Main creates a queue and spawns two children; then every process is a
\* producer or a consumer of that queue, as it likes.
SharedReqs(p) ==
    IF p = 0
    THEN {Request(0, "a", <<CcCreateQueue(0, m, -1)>>) : m \in 0 .. MaxCap}
             \cup {Request(1, "a", <<CcSpawn(1, <<>>, <<>>, FALSE, 2)>>),
                   Request(2, "a", <<CcEnqueue(2, 0, SharedObjs(0))>>),
                   Request(2, "a", <<CcDequeue(2, 0)>>),
                   Request(3, "a", <<CcDequeue(3, 0)>>)}
    ELSE IF p <= 3
    THEN {Request(0, "a", <<CcEnqueue(0, 0, SharedObjs(p))>>),
          Request(0, "a", <<CcDequeue(0, 0)>>)}
    ELSE {}

NextShared ==
    \E p \in Pids :
        \/ StartInvocation(p)
        \/ InvokeReturned(p, SharedReqs(p))
        \/ ResultArrived(p)
        \/ RunSpawn(p)
        \/ ChildStart(p)
        \/ RunCreateQueue(p)
        \/ RunEnqueue(p)
        \/ EnqueueStep(p)
        \/ RunDequeue(p)
        \/ DequeueStep(p)
        \/ Handoff(p)

SpecShared == Init /\ [][NextShared]_vars

\* ------------------------------------------------------- invalid calls
\* Calls of a handler that gets things wrong, next to two that are right.
HttpCalls ==
    UNION {{CcUnknown(n), BadParams(CcCheckpoint(n)), CcWait(n, MaxProcs),
            CcEnqueue(n, 0, <<"a">>), CcDequeue(n, 0), CcCheckpoint(n),
            CcExit(n, "a")} : n \in Seqnos}

\* One call a request, and a request whose stale first call is invalid.
HttpReqs ==
    {Request(c.seqno, "a", <<c>>) : c \in HttpCalls}
        \cup {Request(1, "a", <<CcUnknown(0), CcCheckpoint(1)>>)}

NextHttp ==
    \/ \E p \in Pids :
        \/ StartInvocation(p)
        \/ InvokeReturned(p, HttpReqs)
        \/ ServeHTTP(p, HttpReqs)
        \/ Rejected(p)
        \/ RpcArrived(p)
        \/ RpcTimeout(p)
        \/ ResultArrived(p)
        \/ RunCheckpoint(p)
        \/ RunExit(p)
        \/ CloseDone(p)
        \/ RunWait(p)
        \/ RunEnqueue(p)
        \/ RunDequeue(p)
        \/ RunSeesFatal(p)
    \/ RunSeesDone
    \/ Finalize

SpecHttp == Init /\ [][NextHttp]_vars

\* ------------------------------------------------ processes and queues
\* Calls that create processes and queues.
TableCalls(n) ==
    {CcSpawn(n, <<>>, <<>>, FALSE, 1), CcMapSpawn(n, <<>>, <<>>, <<"b">>),
     CcCreateQueue(n, 1, -1), CcCreateQueue(n, 0, 1)}

\* Main maps over one element and then creates something more; the child
\* creates something at the same time.
TableReqs(p) ==
    IF p = 0
    THEN {Request(0, "a", <<CcMapSpawn(0, <<>>, <<>>, <<"a">>)>>)}
             \cup {Request(1, "a", <<c>>) : c \in TableCalls(1)}
    ELSE {Request(0, "a", <<c>>) : c \in TableCalls(0)}

NextTables ==
    \E p \in Pids :
        \/ StartInvocation(p)
        \/ InvokeReturned(p, TableReqs(p))
        \/ ResultArrived(p)
        \/ RunSpawn(p)
        \/ RunMapSpawn(p)
        \/ MapSpawnReturns(p)
        \/ ChildStart(p)
        \/ RunCreateQueue(p)

SpecTables == Init /\ [][NextTables]_vars

\* ------------------------------------------- the message-passing example
\* The pickled None that ends the stream, and the pickled counts.
ExampleNone == "None"
Counts == <<"0", "1", "2", "3">>

\* What a handler of the example returns when it is invoked with this
\* sequence number and this result of its last call.  Process 0 is `handler`,
\* process 1 is `count`, process 2 is `gen`.
ExampleReq(p, seqno, res) ==
    IF p = 0
    THEN Request(seqno, "a",
             <<CASE seqno = 0 -> CcCreateQueue(0, 1, -1)
                 [] seqno = 1 -> CcSpawn(1, <<>>, <<>>, FALSE, 1)
                 [] seqno = 2 -> CcSpawn(2, <<>>, <<>>, FALSE, 1)
                 [] seqno = 3 -> CcWait(3, 1)
                 [] OTHER     -> CcExit(seqno, res.str)>>)
    ELSE IF p = 1
    THEN Request(seqno, "a",
             <<IF seqno > 0 /\ res = StrRes(ExampleNone)
               THEN CcExit(seqno, Counts[seqno])
               ELSE CcDequeue(seqno, 0)>>)
    ELSE Request(seqno, "a",
             <<CASE seqno = 0 -> CcEnqueue(0, 0, <<"a">>)
                 [] seqno = 1 -> CcEnqueue(1, 0, <<"b">>)
                 [] seqno = 2 -> CcEnqueue(2, 0, <<ExampleNone>>)
                 [] OTHER     -> CcExit(seqno, ExampleNone)>>)

ExampleReqs(p) ==
    IF p <= 2 /\ invokeCh[p].active
    THEN {ExampleReq(p, invokeCh[p].seqno, invokeCh[p].res)}
    ELSE {}

NextExample ==
    \E p \in Pids :
        \/ StartInvocation(p)
        \/ InvokeReturned(p, ExampleReqs(p))
        \/ ResultArrived(p)
        \/ RunCreateQueue(p)
        \/ RunSpawn(p)
        \/ ChildStart(p)
        \/ RunWait(p)
        \/ WaitDone(p)
        \/ RunEnqueue(p)
        \/ EnqueueStep(p)
        \/ RunDequeue(p)
        \/ DequeueStep(p)
        \/ RunExit(p)
        \/ CloseDone(p)

SpecExample == Init /\ [][NextExample]_vars

\* Fair scheduling of the goroutines, and handlers that always return.
ExampleFairness ==
    \A p \in Pids :
        /\ WF_vars(StartInvocation(p))
        /\ WF_vars(InvokeReturned(p, ExampleReqs(p)))
        /\ WF_vars(ResultArrived(p))
        /\ WF_vars(RunCreateQueue(p))
        /\ WF_vars(RunSpawn(p))
        /\ WF_vars(ChildStart(p))
        /\ WF_vars(RunWait(p))
        /\ WF_vars(WaitDone(p))
        /\ WF_vars(RunEnqueue(p))
        /\ WF_vars(EnqueueStep(p))
        /\ WF_vars(RunDequeue(p))
        /\ WF_vars(DequeueStep(p))
        /\ WF_vars(RunExit(p))
        /\ WF_vars(CloseDone(p))

SpecExampleFair == SpecExample /\ ExampleFairness

\* ------------------------------------------------------ controller claims
\* C12: a process that reports a fatal error gets rid of it: its p.fatal
\* call completes and its driver returns, whether its error is the first one
\* of the workload or a later one.
C12_FatalNeverBlocks ==
    \A p \in Pids : (pc[p] = "fatal") ~> (pc[p] = "failed")

\* In this step workload.Run returns.
RunReturns == ctl.state = "running" /\ ctl'.state = "returned"

\* What holds of workload.Run whatever it returns: the main process is pid 0,
\* runs on the coordinator, starts from the empty checkpoint id with the
\* application event; Run returns once and what it returned stays; the
\* handler is finalized only after Run has returned.
RunOnce ==
    /\ [](/\ Exists(0)
          /\ start[0] = MainStart
          /\ (\A n \in HistSeqnos : updCount[0][n] = 0) => s[0].chkID = nullChkID
          /\ ctl.state = "running" <=> ctl.outcome = "")
    /\ [][/\ ctl.state # "running"
              => /\ ctl'.state # "running"
                 /\ ctl'.outcome = ctl.outcome
                 /\ ctl'.value = ctl.value
                 /\ ctl'.from = ctl.from
          /\ (ctl.state # "finalized" /\ ctl'.state = "finalized")
              => ctl.state = "returned"
          /\ (RunReturns /\ ctl'.outcome = "fatal")
              => \E p \in Pids :
                     /\ pc[p] = "fatal"
                     /\ pc'[p] = "failed"
                     /\ ctl'.from = p
                     /\ ctl'.value = fatalErr[p]]_vars

\* C13 as stated: workload.Run creates the main process (pid 0, on the
\* coordinator, empty checkpoint id, the application event) and returns
\* exactly once, with main's return value when it has seen main's Done closed
\* or with a FATAL error taken from the sink; no result before Done is
\* closed; the handler is finalized after Run has returned.
C13_RunReturnsResultOrFatal ==
    /\ RunOnce
    /\ [][RunReturns
              => /\ ctl'.outcome \in {"result", "fatal"}
                 /\ ctl'.outcome = "result"
                        => /\ Done[0]
                           /\ ctl'.value = "repr:" \o exitArg[0]]_vars

\* C13, amended: as stated, but when Run has seen main's Done closed it
\* returns the human-readable decoding of main's return value, and when that
\* value does not decode it returns the decoding error and no result.
C13_RunReturnsDecodedOrError ==
    /\ RunOnce
    /\ [][RunReturns
              => /\ ctl'.outcome \in {"result", "decode error", "fatal"}
                 /\ ctl'.outcome = "result"
                        => /\ Done[0]
                           /\ exitArg[0] \in Pickles
                           /\ ctl'.value = "repr:" \o exitArg[0]
                 /\ ctl'.outcome = "decode error"
                        => /\ Done[0]
                           /\ exitArg[0] \notin Pickles
                           /\ ctl'.value = ""]_vars

\* Run has returned the decoding of main's return value and the handler is
\* finalized.
C13_Witness ==
    /\ ctl.state = "finalized"
    /\ ctl.outcome = "result"
    /\ ctl.value = "repr:a"
    /\ Done[0]

\* ------------------------------------------------------------ spawn, wait
\* The pids of a list are in creation order: each was taken from nextPid
\* later than the one before it.
InCreationOrder(pids) ==
    \A i, j \in DOMAIN pids : i < j => pids[i] < pids[j]

\* C14: a blocking spawn delivers its result only when every one of the
\* `copies` children it created has closed Done, and the result is rets with
\* the return value of the i-th created child at place i, whatever the order
\* in which the children finished; a non-blocking spawn delivers child_pids
\* in the step that creates its last child, listing the pids of the children
\* it created in creation order, whether or not a child has started or
\* finished.
C14_SpawnResult ==
    [][\A p \in Pids :
          Returns(p, "spawn") =>
              LET cc == Head(cur[p].calls) IN
              IF cc.blocking
              THEN /\ Len(cur[p].made) = cc.copies
                   /\ InCreationOrder(cur[p].made)
                   /\ \A k \in Range(cur[p].made) : Exists(k) /\ Done[k]
                   /\ cur'[p].hr.res =
                          RetsRes([i \in 1 .. cc.copies |-> exitArg[cur[p].made[i]]])
              ELSE LET kids == cur'[p].hr.res.nums IN
                   /\ cur'[p].hr.res = ChildPidsRes(kids)
                   /\ Len(kids) = cc.copies
                   /\ InCreationOrder(kids)
                   /\ kids = IF cc.copies = 0 THEN <<>>
                             ELSE Append(cur[p].made, nextPid)
                   /\ cc.copies > 0 => /\ pc[nextPid] = "absent"
                                       /\ pc'[nextPid] = "waiting"
                                       /\ nextPid' = nextPid + 1
                   /\ \A k \in Range(kids) : pc'[k] = "waiting" \/ k < nextPid]_vars

\* Main's blocking spawn of two children has returned their two return
\* values, the first child's first.
C14_Witness ==
    /\ pc[0] = "dispatch"
    /\ cur[0].hr.ready
    /\ cur[0].hr.res = RetsRes(<<ObjNames[2], ObjNames[3]>>)
    /\ Done[1] /\ Done[2]

\* The driver of p leaves a request whose calls produced an error.
LeavesOnError(p) ==
    /\ pc[p] = "dispatch"
    /\ cur[p].hr.ready
    /\ cur[p].hr.err
    /\ pc'[p] # pc[p]

\* C15: a wait call on pid t produces its result only when t has closed
\* Done, and the result is t's return value; when t is done already at
\* dispatch the result is there in that step, when t is not done the call
\* waits; when no process has pid t the call yields an error, and the driver
\* of the calling process raises it as a fatal error.
C15_WaitResult ==
    [][\A p \in Pids :
          /\ Returns(p, "wait")
                 => LET t == Head(cur[p].calls).pid IN
                    /\ Exists(t)
                    /\ Done[t]
                    /\ cur'[p].hr.res = StrRes(exitArg[t])
          /\ (Running(p, "wait") /\ cur'[p] # cur[p])
                 => LET t == Head(cur[p].calls).pid IN
                    IF ~Exists(t) THEN cur'[p].hr.ready /\ cur'[p].hr.err
                    ELSE IF Done[t] THEN Returns(p, "wait")
                    ELSE ~cur'[p].hr.ready /\ cur'[p].calls = cur[p].calls
          /\ LeavesOnError(p)
                 => /\ pc'[p] = "fatal"
                    /\ fatalErr'[p] # ""
                    /\ s'[p] = s[p]]_vars

\* Main's wait for its first child found the child running, waited, and has
\* produced the child's return value.
C15_Witness ==
    /\ pc[0] = "dispatch"
    /\ cur[0].hr.ready
    /\ cur[0].hr.res.kind = "str"
    /\ cur[0].hr.res.str = exitArg[1]
    /\ cur[0].req.seqno = 1
    /\ closeCount[1] = 1

\* ------------------------------------------------------ queue hand-off
\* The example has run to its end: the three processes have exited, the
\* consumer read the two strings and the terminator and exited with count 2,
\* and main's wait on the consumer gave 2.
HandoffDone ==
    /\ Done[0] /\ Done[1] /\ Done[2]
    /\ deqLog[0][1] = <<"a", "b", ExampleNone>>
    /\ Ret[1] = Counts[3]
    /\ Ret[0] = Counts[3]
    /\ updCount[0][3] = 1

\* C16: in the message-passing example (a queue of capacity 1, a consumer
\* that dequeues and counts until the terminator, a producer that enqueues
\* two strings and the terminator), under fair scheduling and with handlers
\* that always return, no process raises a fatal error, producer and
\* consumer do not stay blocked, the consumer exits with count 2 and main's
\* wait on the consumer returns 2.
C16_HandoffTerminates ==
    /\ [](\A p \in Pids : pc[p] # "fatal" /\ ~panicked)
    /\ [][\A p \in Pids :
              Returns(p, "wait") => cur'[p].hr.res = StrRes(Counts[3])]_vars
    /\ <>[]HandoffDone

\* The example has run to its end with the count 2.
C16_Witness == HandoffDone /\ qbuf[0] = <<>> /\ pc[2] = "exited"

\* ------------------------------------------------- pid and qid tables
\* The pids pidMap has and the qids qidMap has.
KnownPids == {p \in Pids : pc[p] # "absent"}
KnownQids == {q \in Qids : qcap[q] # NoQueue}

\* The pids a spawn or map_spawn in progress has created so far.
MadePids(p) ==
    IF pc[p] = "dispatch" /\ cur[p].phase \in {"run", "await", "return"}
       /\ cur[p].calls # <<>>
       /\ Head(cur[p].calls).op \in {"spawn", "map_spawn"}
    THEN Range(cur[p].made)
    ELSE {}

\* C17: pids and qids come from counters that start at 0 (pid 0 is main's)
\* and are never reused: under any interleaving of spawn, map_spawn and
\* create_queue calls of different processes the known pids are exactly
\* 0 .. nextPid-1 and the known qids exactly 0 .. nextQid-1, a new entry
\* always takes the counter's value and advances the counter by one, two
\* calls never get the same pid, and no entry is removed or replaced.
C17_TablesGrow ==
    /\ [](/\ KnownPids = 0 .. (nextPid - 1)
          /\ KnownQids = 0 .. (nextQid - 1)
          /\ \A p, r \in Pids : p # r => MadePids(p) \cap MadePids(r) = {}
          /\ \A p \in Pids : MadePids(p) \subseteq KnownPids \ {0})
    /\ [][/\ nextPid' \in {nextPid, nextPid + 1}
          /\ nextQid' \in {nextQid, nextQid + 1}
          /\ \A p \in Pids :
                 IF p \in KnownPids
                 THEN p \in KnownPids' /\ start'[p] = start[p]
                 ELSE p \in KnownPids' => p = nextPid /\ nextPid' = nextPid + 1
          /\ \A q \in Qids :
                 IF q \in KnownQids
                 THEN qcap'[q] = qcap[q]
                 ELSE q \in KnownQids' => q = nextQid /\ nextQid' = nextQid + 1]_vars

\* Main's map_spawn created process 1, a later call created process 2, and
\* a queue was created as well.
C17_Witness ==
    /\ nextPid = MaxProcs
    /\ nextQid = 1
    /\ start[1].mapped
    /\ KnownPids = Pids

\* ------------------------------------------------------- invalid calls
\* The driver of p raises a fatal error in this step.
RaisesFatal(p) == pc[p] # "fatal" /\ pc'[p] = "fatal"

\* The driver of p takes an accepted RPC request off p.RPC and its parsing
\* fails.
RpcParseFails(p) ==
    /\ pc[p] = "select"
    /\ RPC[p] # <<>>
    /\ RPC'[p] = <<>>
    /\ ~IsOutdated(Head(RPC[p]).req.seqno, s[p].nextSeqno)
    /\ ParseFails(Head(RPC[p]).req, s[p].nextSeqno)

\* The call at the head of what p runs cannot be carried out: a wait for a
\* pid that pidMap does not have, an enqueue or dequeue on a qid that qidMap
\* does not have.
InvalidAtRun(p) ==
    /\ pc[p] = "dispatch"
    /\ cur[p].phase = "run"
    /\ LET cc == Head(cur[p].calls) IN
       \/ cc.op = "wait" /\ ~Exists(cc.pid)
       \/ cc.op \in {"enqueue", "dequeue"} /\ ~HasQueue(cc.qid)

\* What holds of an invalid call on both paths: a call that does not parse
\* is never run; a call that is invalid when it is run yields an error; the
\* error makes the driver call p.fatal without advancing its run-state; from
\* then on the driver takes no request and changes nothing, and it returns
\* only when workload.Run has received the error.
InvalidIsFatal ==
    /\ [](\A p \in Pids :
             pc[p] = "dispatch"
                 => \A i \in DOMAIN cur[p].calls : ~Unparsable(cur[p].calls[i]))
    /\ [][\A p \in Pids :
             /\ (InvalidAtRun(p) /\ cur'[p].phase # cur[p].phase)
                    => /\ cur'[p].hr.ready
                       /\ cur'[p].hr.err
                       /\ cur'[p].calls = <<>>
                       /\ UNCHANGED <<queueVars, nextPid, enqLog, deqLog>>
             /\ (LeavesOnError(p) \/ RpcParseFails(p)) => RaisesFatal(p)
             /\ RaisesFatal(p)
                    => /\ s'[p] = s[p]
                       /\ updCount'[p] = updCount[p]
                       /\ fatalErr'[p] # ""
                       /\ ~Done'[p]
             /\ pc[p] = "fatal"
                    => /\ s'[p] = s[p]
                       /\ cur'[p] = cur[p]
                       /\ invokeCh'[p] = invokeCh[p]
                       /\ updCount'[p] = updCount[p]
                       /\ pc'[p] \in {"fatal", "failed"}
                       /\ pc'[p] = "failed"
                              => /\ ctl.state = "running"
                                 /\ ctl'.outcome = "fatal"
                                 /\ ctl'.from = p
             /\ pc[p] = "failed" => pc'[p] = "failed" /\ s'[p] = s[p]]_vars

\* The reply to the RPC that p's driver is handling, or is taking off p.RPC,
\* after this step.
RpcReplyAfter(p) ==
    IF pc[p] = "select" THEN tasks'[Head(RPC[p]).task].reply
    ELSE tasks'[cur[p].task].reply

OnRpcPath(p) ==
    \/ RpcParseFails(p)
    \/ pc[p] = "dispatch" /\ cur[p].via = "rpc"

Called(t) == Len(tasks) = t - 1 /\ Len(tasks') = t

\* The HTTP reply of task t is written in this step.
Answers(t) ==
    /\ t <= Len(tasks')
    /\ tasks'[t].reply # NoReply
    /\ t <= Len(tasks) => tasks[t].reply = NoReply

\* The reply ServeHTTP writes for the asyncResponse the driver of p sends in
\* this step: would-block when the timer fired, an error when parsing failed
\* or the calls produced one, else the result (nil for an outdated request).
ExpectedReply(p) ==
    IF pc[p] = "select"
    THEN IF RpcParseFails(p)
         THEN [status |-> 400, body |-> "error", res |-> NilRes]
         ELSE [status |-> 200, body |-> "json", res |-> NilRes]
    ELSE IF pc'[p] = "dispatch"
    THEN [status |-> 202, body |-> "", res |-> NilRes]
    ELSE IF cur[p].hr.err
    THEN [status |-> 400, body |-> "error", res |-> NilRes]
    ELSE [status |-> 200, body |-> "json", res |-> cur[p].hr.res]

\* C19: the RPC endpoint answers a non-POST method with 405, an unreadable
\* or unparsable body with 400, an unknown req.pid with 400, a would-block
\* reply of the driver with 202 and an empty body, an error reply with 400,
\* and any other reply with 200 and the JSON-encoded result.  With 405 and
\* with a 400 decided before the submission nothing is put into any
\* process's RPC channel and no run-state, process or queue changes.
C19_StatusMapping ==
    [][\A t \in 1 .. MaxRPC :
          /\ Called(t)
                 => LET k == tasks'[t] IN
                    IF k.input.method # "POST"
                    THEN k.reply.status = 405
                         /\ UNCHANGED <<ctl, procVars, queueVars, histVars>>
                    ELSE IF ~k.input.readable \/ ~k.input.parsable \/ ~Exists(k.pid)
                    THEN k.reply.status = 400
                         /\ UNCHANGED <<ctl, procVars, queueVars, histVars>>
                    ELSE /\ k.reply = NoReply
                         /\ Len(RPC'[k.pid]) = 1
                         /\ Head(RPC'[k.pid]).task = t
          /\ (Answers(t) /\ ~Called(t))
                 => tasks'[t].reply = ExpectedReply(tasks[t].pid)
          /\ (t <= Len(tasks) /\ tasks[t].reply # NoReply)
                 => tasks'[t] = tasks[t]]_vars

\* A GET was answered 405 while main's invocation was running.
C19_Witness ==
    /\ Len(tasks) = 1
    /\ tasks[1].input.method = "GET"
    /\ tasks[1].reply.status = 405
    /\ RPC[0] = <<>>
    /\ invokeCh[0].active

\* ---------------------------------------- several producers and consumers
\* The elements of a sequence that producer p enqueued, in their order there.
Of(p, q, seq) == SelectSeq(seq, LAMBDA v : v \in Range(enqLog[q][p]))

\* How many elements of producer p have been dequeued from q, by anyone.
RECURSIVE TakenUpTo(_, _, _)
TakenUpTo(p, q, c) ==
    IF c < 0 THEN 0
    ELSE Len(Of(p, q, deqLog[q][c])) + TakenUpTo(p, q, c - 1)
Taken(p, q) == TakenUpTo(p, q, MaxProcs - 1)

\* a is a subsequence of b; the elements of b are pairwise different.
IsSubSeq(a, b) ==
    /\ Range(a) \subseteq Range(b)
    /\ \A i, j \in DOMAIN a :
           i < j => \E k, l \in DOMAIN b : k < l /\ b[k] = a[i] /\ b[l] = a[j]

\* C20: with several producers and consumers on one queue every dequeued
\* value was sent by a producer before, no element is delivered to two
\* dequeues, and the elements of each producer leave the queue in the order
\* in which that producer enqueued them, the objs of one enqueue call in
\* their order: what a dequeue takes is the oldest element of its producer
\* that has not been taken yet.
C20_PerProducerOrder ==
    /\ [](\A q \in Qids : HasQueue(q) =>
             /\ \A c \in Pids :
                    /\ Range(deqLog[q][c])
                           \subseteq UNION {Range(SentBy(q, p)) : p \in Pids}
                    /\ \A i, j \in DOMAIN deqLog[q][c] :
                           i # j => deqLog[q][c][i] # deqLog[q][c][j]
                    /\ \A d \in Pids \ {c} :
                           Range(deqLog[q][c]) \cap Range(deqLog[q][d]) = {}
                    /\ Range(deqLog[q][c]) \cap Range(qbuf[q]) = {}
                    /\ \A p \in Pids : IsSubSeq(Of(p, q, deqLog[q][c]), enqLog[q][p])
             /\ \A p \in Pids :
                    /\ Taken(p, q) + Len(Of(p, q, qbuf[q])) = Len(SentBy(q, p))
                    /\ Of(p, q, qbuf[q])
                           = SubSeq(SentBy(q, p), Taken(p, q) + 1, Len(SentBy(q, p))))
    /\ [][\A q \in Qids : \A c \in Pids :
             ReceiveCompletes(c, q)
                 => /\ Len(deqLog'[q][c]) = Len(deqLog[q][c]) + 1
                    /\ \E p \in Pids :
                           /\ Taken(p, q) < Len(enqLog[q][p])
                           /\ deqLog'[q][c][Len(deqLog'[q][c])]
                                  = enqLog[q][p][Taken(p, q) + 1]]_vars

\* Two producers have sent, two consumers (or one, twice) have dequeued, and
\* the values taken come from both producers.
C20_Witness ==
    /\ HasQueue(0)
    /\ \E p, r \in Pids :
           /\ p # r
           /\ Taken(p, 0) >= 1
           /\ Taken(r, 0) >= 1
    /\ \E c \in Pids : Len(deqLog[0][c]) = 2

\* ------------------------------------------------------- run-state update
\* Run-states, requests and results to apply runState.update to.
UpdateStates ==
    {RunState(r, n, c) : r \in {NilRes, StrRes("a")}, n \in 0 .. (MaxSeqno + 1),
                         c \in {nullChkID, "a"}}
UpdateReqs == {Request(n, c, <<>>) : n \in Seqnos, c \in {"a", "b"}}
UpdateResults == {NilRes, StrRes("b"), ChildPidsRes(<<1>>)}

\* The driver of p leaves the request it has handled: the end of the loop
\* body of process.Run.
Leaves(p) == pc[p] = "dispatch" /\ cur[p].hr.ready /\ pc'[p] # "dispatch"

\* C21: when the driver has handled a request req with result res, no error
\* and done = false (req.seqno >= nextSeqno then), the new run-state is
\* lastResult = res, nextSeqno = req.seqno + 1, chkID = req.chk_id, also when
\* req.seqno is larger than nextSeqno; with an error or done the run-state
\* stays; and runState.update applied to a request below nextSeqno changes
\* none of the three fields.
C21_UpdateRule ==
    /\ [](\A st \in UpdateStates : \A req \in UpdateReqs : \A res \in UpdateResults :
             update(st, req, res) =
                 IF req.seqno < st.nextSeqno THEN st
                 ELSE [res |-> res, nextSeqno |-> req.seqno + 1, chkID |-> req.chkID])
    /\ [][\A p \in Pids :
             Leaves(p)
                 => IF cur[p].hr.err \/ cur[p].hr.done
                    THEN s'[p] = s[p]
                    ELSE /\ cur[p].req.seqno >= s[p].nextSeqno
                         /\ s'[p].res = cur[p].hr.res
                         /\ s'[p].nextSeqno = cur[p].req.seqno + 1
                         /\ s'[p].chkID = cur[p].req.chkID]_vars

\* Main's first accepted request had seqno 1: the run-state skipped seqno 0
\* and holds the result of that request's spawn.
C21_Witness ==
    /\ s[0].nextSeqno = 2
    /\ s[0].chkID = "a"
    /\ s[0].res.kind = "child_pids"
    /\ updCount[0][0] = 0
    /\ updCount[0][1] = 1

\* ------------------------------------------------- invocations restarted
\* The invocation of p completes in this step.
Completes(p) == invokeCh[p].active /\ ~invokeCh'[p].active

\* It completes with a crash within the retry bound, a timeout, a response
\* marked blocked, or a request below nextSeqno.
Restarted(p) ==
    /\ Completes(p)
    /\ \/ hist'[p].last = "crashed" /\ hist'[p].run <= crashRetries
       \/ hist'[p].last = "timeout"
       \/ hist'[p].last = "blocked"
       \/ hist'[p].last = "request" /\ hist'[p].seqno < s[p].nextSeqno

\* No coordinator call of p is parsed or run, and nothing a call could change
\* changes.
NoCallRuns(p) ==
    /\ cur'[p] = cur[p]
    /\ execCount'[p] = execCount[p]
    /\ updCount'[p] = updCount[p]
    /\ fatalErr'[p] = fatalErr[p]
    /\ UNCHANGED <<nextPid, start, Done, Ret, queueVars, closeCount, exitArg, enqLog, deqLog>>

\* C22: an invocation that completes with a crash within the retry bound, a
\* timeout, a blocked response or a request below nextSeqno runs none of the
\* response's calls and leaves the run-state, and the driver is back at the
\* head of its loop with no invocation; from there its next step starts an
\* invocation with the pid, the unchanged nextSeqno, chkID and lastResult, and
\* the app event and target the process was started with.
C22_RestartFromSameState ==
    [][\A p \in Pids :
         /\ Restarted(p)
               => /\ s'[p] = s[p]
                  /\ NoCallRuns(p)
                  /\ pc'[p] = "top"
         /\ (pc[p] = "top" /\ ~invokeCh[p].active)
               => /\ s'[p] = s[p]
                  /\ start'[p] = start[p]
                  /\ invokeCh'[p] # invokeCh[p]
                        => invokeCh'[p] =
                              [active |-> TRUE, pid |-> p, seqno |-> s[p].nextSeqno,
                               chkID |-> s[p].chkID, res |-> s[p].res,
                               appEv |-> start[p].appEv, target |-> start[p].target]]_vars

\* A process that has advanced its run-state, has since had a crash, a
\* timeout (the crash counter is back at 0), and then a request below
\* nextSeqno, and has started its next invocation from the advanced state.
C22_Witness ==
    \E p \in Pids :
        /\ s[p].nextSeqno = 2
        /\ hist[p].last = "request"
        /\ hist[p].seqno < s[p].nextSeqno
        /\ outdatedLog[p].via = "sync"
        /\ hist[p].run = 0
        /\ numCrashes[p] = 0
        /\ sinceAccept[p] > 0
        /\ invokeCh[p].active
        /\ invokeCh[p].seqno = 2
        /\ invokeCh[p].chkID = s[p].chkID
        /\ pc[p] = "select"

\* ------------------------------------------------------- outdated RPCs
\* RPC requests of a handler whose library names an operation the coordinator
\* does not have: every request lists a call of it, as its only call or as a
\* first call before a checkpoint.
BogusReqs ==
    {Request(n, k, <<CcUnknown(n)>>) : n \in Seqnos, k \in ChkIDs}
        \cup {Request(n, k, <<CcUnknown(0), CcCheckpoint(n)>>) :
                 n \in Seqnos \ {0}, k \in ChkIDs}

\* A handler that checkpoints through its invocations while such RPCs come in.
NextStale ==
    \E p \in Pids :
        \/ StartInvocation(p)
        \/ InvokeReturned(p, CheckpointReqs)
        \/ ServeHTTP(p, BogusReqs)
        \/ RpcArrived(p)
        \/ RpcTimeout(p)
        \/ ResultArrived(p)
        \/ RunCheckpoint(p)

SpecStale == Init /\ [][NextStale]_vars

\* The driver of p takes an RPC below nextSeqno off its channel.
OutdatedRpc(p) ==
    /\ pc[p] = "select"
    /\ RPC[p] # <<>>
    /\ RPC'[p] = <<>>
    /\ Head(RPC[p]).req.seqno < s[p].nextSeqno

\* C23: the driver answers an RPC request below nextSeqno with a null result
\* and no error, which ServeHTTP turns into status 200; it parses and runs
\* none of the request's calls, so that an unknown operation among them is
\* no error and no fatal; the run-state stays, and the outstanding
\* invocation stays outstanding with the driver waiting for it.
C23_OutdatedRpcIgnored ==
    [][\A p \in Pids :
         OutdatedRpc(p)
            => /\ tasks'[Head(RPC[p]).task].reply =
                      [status |-> 200, body |-> "json", res |-> NilRes]
               /\ s'[p] = s[p]
               /\ NoCallRuns(p)
               /\ pc'[p] = "select"
               /\ invokeCh[p].active
               /\ invokeCh'[p] = invokeCh[p]]_vars

\* An RPC below nextSeqno, which lists a call of an unknown operation as all
\* RPCs of BogusReqs do, has been answered with 200 and a null result; the
\* process is not fatal.
C23_Witness ==
    \E p \in Pids :
        /\ outdatedLog[p].via = "rpc"
        /\ outdatedLog[p].seqno < s[p].nextSeqno
        /\ tasks # <<>>
        /\ tasks[1].pid = p
        /\ tasks[1].reply = [status |-> 200, body |-> "json", res |-> NilRes]
        /\ fatalErr[p] = ""
        /\ invokeCh[p].active

\* ------------------------------------------------------------- timeouts
\* C24: an invocation that times out is never fatal: it sets the count of
\* consecutive crashes to zero and the driver restarts the invocation; the
\* crash error is fatal only when more than crashRetries crashes have
\* occurred since the last timeout.
C24_TimeoutResetsCrashes ==
    /\ [](\A p \in Pids : fatalErr[p] = "crashed" => hist[p].run > crashRetries)
    /\ [][\A p \in Pids :
             (Completes(p) /\ hist'[p].last = "timeout")
                => /\ numCrashes'[p] = 0
                   /\ pc'[p] = "top"
                   /\ fatalErr[p] = ""
                   /\ fatalErr'[p] = ""
                   /\ ~invokeCh'[p].active]_vars

\* More than crashRetries crashes with timeouts in between and no accepted
\* request: the last timeout has set the count to zero and nothing is fatal.
C24_Witness ==
    \E p \in Pids :
        /\ sinceAccept[p] > crashRetries
        /\ hist[p].last = "timeout"
        /\ numCrashes[p] = 0
        /\ fatalErr[p] = ""
        /\ pc[p] = "top"

\* ------------------------------------------------- requests of several calls
\* Calls without a result value, with a done result, with an error (a wait
\* for a pid no process has).
BatchCalls ==
    {CcCheckpoint(n) : n \in Seqnos} \cup {CcExit(MaxSeqno, "a"), CcWait(0, MaxProcs)}
BatchReqs == RequestsOver(BatchCalls)
\* Those with two calls and the largest seqno.
BatchRpcReqs == {req \in BatchReqs : Len(req.calls) = 2 /\ req.seqno = MaxSeqno}

\* A handler that sends such calls one or two a request, returned by the
\* invocation or over RPC.
NextBatch ==
    \E p \in Pids :
        \/ StartInvocation(p)
        \/ InvokeReturned(p, BatchReqs)
        \/ ServeHTTP(p, BatchRpcReqs)
        \/ RpcArrived(p)
        \/ RpcTimeout(p)
        \/ ResultArrived(p)
        \/ RunCheckpoint(p)
        \/ RunExit(p)
        \/ CloseDone(p)
        \/ RunWait(p)

SpecBatch == Init /\ [][NextBatch]_vars

\* The calls of a list that are not below n, in the order of the list.
RECURSIVE Fresh(_, _)
Fresh(calls, n) ==
    IF calls = <<>> THEN <<>>
    ELSE IF Head(calls).seqno < n THEN Fresh(Tail(calls), n)
    ELSE <<Head(calls)>> \o Fresh(Tail(calls), n)

\* The driver of p takes up a request: handleRequest has returned a channel.
TakesUp(p) == pc[p] # "dispatch" /\ pc'[p] = "dispatch"

\* The call at the head of p's request produces its result in this step.
HeadReturns(p) ==
    /\ pc[p] = "dispatch"
    /\ pc'[p] = "dispatch"
    /\ cur[p].calls # <<>>
    /\ cur'[p].calls # cur[p].calls

\* C25: of a request's calls those not below nextSeqno are run, one at a
\* time in the order of the list, the next one only after the one before has
\* produced its result; calls below nextSeqno are not run; the run stops
\* with the first call whose result is done or an error, so that later calls
\* of the list are not run, and the one result of the request is the result
\* of the call run last (a null result, not done, when no call is run).
C25_CallsInListOrder ==
    [][\A p \in Pids :
         /\ TakesUp(p)
               => /\ \A i \in 1 .. Len(cur'[p].calls) :
                         cur'[p].calls[i].seqno >= s[p].nextSeqno
                  /\ RPC'[p] # RPC[p]
                        => cur'[p].calls = Fresh(Head(RPC[p]).req.calls, s[p].nextSeqno)
                  /\ cur'[p].hr.ready <=> cur'[p].calls = <<>>
                  /\ cur'[p].hr.ready => cur'[p].hr = Hr(NilRes, FALSE, FALSE)
                  /\ execCount'[p] = execCount[p]
         /\ execCount'[p] # execCount[p]
               => /\ pc[p] = "dispatch"
                  /\ cur[p].calls # <<>>
                  /\ cur[p].phase = "run"
                  /\ \A n \in HistSeqnos :
                         execCount'[p][n] # execCount[p][n]
                            => /\ n = Head(cur[p].calls).seqno
                               /\ n >= s[p].nextSeqno
                               /\ execCount'[p][n] = execCount[p][n] + 1
         /\ HeadReturns(p)
               => LET cc   == Head(cur[p].calls)
                      done == cc.op = "exit"
                      err  == cc.op = "wait" /\ ~Exists(cc.pid)
                  IN IF done \/ err \/ Len(cur[p].calls) = 1
                     THEN /\ cur'[p].calls = <<>>
                          /\ cur'[p].hr.ready
                          /\ cur'[p].hr.done = (done \/ err)
                          /\ cur'[p].hr.err = err
                     ELSE /\ cur'[p].calls = Tail(cur[p].calls)
                          /\ cur'[p].phase = "run"
                          /\ ~cur'[p].hr.ready
         /\ (pc[p] = "dispatch" /\ cur[p].hr.ready)
               => cur'[p] \in {cur[p], [cur[p] EXCEPT !.replied = TRUE], NoCur}]_vars

\* An RPC request of two calls: the checkpoint with seqno 0 has produced its
\* result and the exit with seqno 1 is being run.
C25_Witness ==
    /\ pc[0] = "dispatch"
    /\ cur[0].via = "rpc"
    /\ cur[0].calls = <<CcExit(1, "a")>>
    /\ cur[0].phase = "close"
    /\ s[0].nextSeqno = 0
    /\ execCount[0][0] = 1
    /\ execCount[0][1] = 1

\* C26: the calls of one process take effect in the order of their seqnos:
\* when a call with seqno n is run, no call of the process with a larger
\* seqno has been run before, whatever the order of the calls in a request.
C26_EffectsInSeqnoOrder ==
    [][\A p \in Pids : \A n \in HistSeqnos :
         execCount'[p][n] > execCount[p][n]
            => \A m \in HistSeqnos : m > n => execCount[p][m] = 0]_vars

\* ------------------------------------------------------- result messages
\* One call a request. Main makes every kind of call, with pids and qids that
\* exist or do not exist when the call is run; a child puts a value into
\* queue 0, takes one out, or exits.
ResultCalls(n) ==
    {CcCheckpoint(n), CcExit(n, "a"), CcSpawn(n, <<>>, <<>>, FALSE, 1),
     CcMapSpawn(n, <<>>, <<>>, <<"b">>), CcWait(n, 1), CcWait(n, MaxProcs),
     CcCreateQueue(n, 1, -1), CcEnqueue(n, 0, <<"a">>), CcDequeue(n, 0),
     CcRemapStore(n)}
ResultReqs(p) ==
    IF p = 0
    THEN UNION {SingleCallReqs(ResultCalls(n)) : n \in 0 .. 1}
    ELSE SingleCallReqs({CcEnqueue(0, 0, <<"b">>), CcDequeue(1, 0), CcExit(0, "c")})

NextResults ==
    \E p \in Pids :
        \/ StartInvocation(p)
        \/ InvokeReturned(p, ResultReqs(p))
        \/ ResultArrived(p)
        \/ RunCheckpoint(p)
        \/ RunExit(p)
        \/ CloseDone(p)
        \/ RunSpawn(p)
        \/ RunMapSpawn(p)
        \/ MapSpawnReturns(p)
        \/ ChildStart(p)
        \/ RunWait(p)
        \/ WaitDone(p)
        \/ RunCreateQueue(p)
        \/ RunEnqueue(p)
        \/ EnqueueStep(p)
        \/ RunDequeue(p)
        \/ RunRemapStore(p)

SpecResults == Init /\ [][NextResults]_vars

\* The call at the head of p's request names a pid or a qid that the tables
\* do not have.
NamesUnknown(p) ==
    LET cc == Head(cur[p].calls) IN
    \/ cc.op = "wait" /\ ~Exists(cc.pid)
    \/ cc.op \in {"enqueue", "dequeue"} /\ ~HasQueue(cc.qid)

\* C27 as stated: a result message is done only if its call is exit, and a
\* call that has delivered its message delivers no second one.
C27_DoneOnlyForExit ==
    [][\A p \in Pids :
         HeadReturns(p)
            => /\ cur'[p].hr.done => Head(cur[p].calls).op = "exit"
               /\ cur'[p].calls \in {<<>>, Tail(cur[p].calls)}]_vars

\* C27: the result message of exit is done with no error; the error message
\* of a wait, enqueue or dequeue that names an unknown pid or qid is done as
\* well; every other message is not done: every result of checkpoint, spawn,
\* map_spawn, create_queue, the results of wait, enqueue and dequeue, and of
\* remap_store its result and its error. A call that has delivered its
\* message is off the list and delivers no second one.
C27_DoneForExitAndErrors ==
    [][\A p \in Pids :
         HeadReturns(p)
            => LET cc == Head(cur[p].calls) IN
               /\ cur'[p].hr.done <=> (cc.op = "exit" \/ NamesUnknown(p))
               /\ cur'[p].hr.err
                     => cc.op = "remap_store" \/ NamesUnknown(p)
               /\ NamesUnknown(p) => cur'[p].hr.ready /\ cur'[p].hr.err
               /\ cc.op = "exit" => cur'[p].hr.ready /\ ~cur'[p].hr.err
               /\ cur'[p].calls \in {<<>>, Tail(cur[p].calls)}]_vars

\* Main's wait for a pid that no process has: its message is an error and is
\* marked done.
C27_Witness ==
    /\ pc[0] = "dispatch"
    /\ cur[0].calls = <<>>
    /\ cur[0].hr.ready
    /\ cur[0].hr.err
    /\ cur[0].hr.done
    /\ execCount[0][1] = 1
    /\ ~Done[0]
    /\ nextQid = 1

\* --------------------------------------------------------------- map_spawn
\* Main maps over no, one or two elements, the children depending on nothing
\* or on main itself, and exits afterwards; a child exits.
MapElems == {SubSeq(ObjNames, 1, n) : n \in 0 .. (MaxProcs - 1)}
MapReqs(p) ==
    IF p = 0
    THEN {Request(0, "a", <<CcMapSpawn(0, f, a, e)>>) :
             f \in {<<>>, <<0>>}, a \in {<<>>, <<0>>}, e \in MapElems}
             \cup {Request(1, "a", <<CcExit(1, "m")>>)}
    ELSE {Request(0, "a", <<CcExit(0, "c")>>)}

NextMap ==
    \E p \in Pids :
        \/ StartInvocation(p)
        \/ InvokeReturned(p, MapReqs(p))
        \/ ResultArrived(p)
        \/ RunExit(p)
        \/ CloseDone(p)
        \/ RunMapSpawn(p)
        \/ MapSpawnReturns(p)
        \/ ChildStart(p)

SpecMap == Init /\ [][NextMap]_vars

\* What holds of a map_spawn's result message and of the children it names.
MapSpawnResult(p) ==
    LET cc   == Head(cur[p].calls)
        kids == cur[p].made
    IN /\ cur'[p].hr.ready /\ ~cur'[p].hr.done /\ ~cur'[p].hr.err
       /\ cur'[p].hr.res.kind = (IF cc.elems = <<>> THEN "nil" ELSE "pids")
       /\ cur'[p].hr.res.nums = kids
       /\ Len(kids) = Len(cc.elems)
       /\ InCreationOrder(kids)
       /\ \A i \in 1 .. Len(kids) :
              /\ kids[i] # p
              /\ Exists(kids[i])
              /\ start[kids[i]].mapped
              /\ start[kids[i]].elem = cc.elems[i]
              /\ start[kids[i]].chkID = cc.childChkID
              /\ start[kids[i]].appEv = ""
              /\ start[kids[i]].futurePids = cc.futurePids
              /\ start[kids[i]].awaitPids = cc.awaitPids

\* The waiter starts child c in this step.
Started(c) == pc[c] = "waiting" /\ pc'[c] # "waiting"

\* What holds when a child of a map_spawn is started.
MappedChildStart(c) ==
    /\ \A d \in Range(start[c].futurePids) \cup Range(start[c].awaitPids) :
           Exists(d) /\ Done[d]
    /\ s'[c].nextSeqno = 0
    /\ s'[c].chkID = start[c].chkID
    /\ s'[c].res.kind = "predRes, elem"
    /\ s'[c].res.str = start[c].elem
    /\ s'[c].res.map = [pid \in Range(start[c].futurePids) |-> exitArg[pid]]
    /\ start[c].appEv = ""
    /\ ~invokeCh'[c].active

\* C28 as stated: the pids are delivered before any child starts.
C28_PidsBeforeAnyStart ==
    [][\A p \in Pids :
         Returns(p, "map_spawn")
            => /\ MapSpawnResult(p)
               /\ \A k \in Range(cur[p].made) : pc[k] = "waiting"]_vars

\* C28: map_spawn creates one child for each element and delivers the list
\* of their pids (null for no element), in the order of the elements and not
\* done, without waiting
\* for a child or for a predecessor: the waiter is launched before the
\* message is made, so that a child whose predecessors have all finished
\* may have started, and even finished, by then. No child is started before
\* every process of future_pids and of await_pids has closed Done; the i-th
\* child is started from child_chk_id with a null app event and the input
\* [predRes, elems[i]], where predRes maps each pid of future_pids to that
\* process's return value, the same map for all the children.
C28_MapSpawn ==
    [][\A p \in Pids :
         /\ Returns(p, "map_spawn") => MapSpawnResult(p)
         /\ (Started(p) /\ start[p].mapped) => MappedChildStart(p)
         /\ \A c \in Pids :
                (Started(p) /\ start[p].mapped /\ start[c].mapped /\ pc[c] = "top"
                     /\ start[c].futurePids = start[p].futurePids
                     /\ \A n \in HistSeqnos : updCount[c][n] = 0)
                    => s'[p].res.map = s[c].res.map]_vars

\* Main has mapped over two elements with future_pids = [0] and has exited
\* with "m": both children have been started with {0: "m"} and their element.
C28_Witness ==
    /\ Done[0]
    /\ start[1].mapped /\ start[2].mapped
    /\ start[1].futurePids = <<0>>
    /\ pc[1] = "top" /\ pc[2] = "top"
    /\ s[1].res = Res("predRes, elem", "a", <<>>, <<>>, [pid \in {0} |-> "m"])
    /\ s[2].res = Res("predRes, elem", "b", <<>>, <<>>, [pid \in {0} |-> "m"])

\* ------------------------------------------------------------ create_queue
\* Main creates queues, one or several at a call, and then creates more or
\* uses a qid, one it has got or one nobody has got.
CreateReqs ==
    {Request(0, "a", <<CcCreateQueue(0, m, c)>>) : m \in 0 .. 1, c \in -2 .. MaxQueues}
        \cup {Request(1, "a", <<CcCreateQueue(1, 1, c)>>) : c \in {-1, 0}}
        \cup {Request(1, "a", <<c>>) :
                 c \in UNION {{CcEnqueue(1, q, <<"a">>), CcDequeue(1, q)} : q \in Qids}}

NextCreate ==
    \E p \in Pids :
        \/ StartInvocation(p)
        \/ InvokeReturned(p, CreateReqs)
        \/ ResultArrived(p)
        \/ RunCreateQueue(p)
        \/ RunEnqueue(p)
        \/ EnqueueStep(p)
        \/ RunDequeue(p)

SpecCreate == Init /\ [][NextCreate]_vars

\* A create_queue call of p takes a step.
CreateQueueActs(p) ==
    /\ pc[p] = "dispatch"
    /\ cur[p].calls # <<>>
    /\ Head(cur[p].calls).op = "create_queue"
    /\ cur'[p] # cur[p]

\* C29: create_queue with copies = -1 makes one queue of capacity max_size
\* and its result is the qid; with copies = n >= 0 it makes n queues of
\* capacity max_size and its result is the list of their qids, n different
\* qids in the order they were made, the empty list and not null for n = 0.
\* Each of its steps makes a queue or delivers the result, so that it never
\* waits for another process; an enqueue or dequeue that names a qid it has
\* returned does not fail.
C29_CreateQueue ==
    /\ [](\A q \in Qids : q < nextQid => qcap[q] # NoQueue)
    /\ [][\A p \in Pids :
             /\ CreateQueueActs(p)
                   => LET cc    == Head(cur[p].calls)
                          n     == IF cc.copies = -1 THEN 1
                                   ELSE IF cc.copies < 0 THEN 0 ELSE cc.copies
                          kids  == IF n = 0 THEN <<>> ELSE Append(cur[p].made, nextQid)
                      IN /\ cur[p].phase = "run"
                         /\ IF n = 0 THEN UNCHANGED queueVars
                            ELSE /\ nextQid' = nextQid + 1
                                 /\ qcap[nextQid] = NoQueue
                                 /\ qcap' = [qcap EXCEPT ![nextQid] = cc.maxSize]
                                 /\ qbuf'[nextQid] = <<>>
                         /\ IF Len(kids) < n
                            THEN cur'[p] = [cur[p] EXCEPT !.made = kids]
                            ELSE /\ Len(kids) = n
                                 /\ InCreationOrder(kids)
                                 /\ \A i \in 1 .. n : kids[i] < nextQid' /\ qcap'[kids[i]] = cc.maxSize
                                 /\ cur'[p].calls = Tail(cur[p].calls)
                                 /\ cur'[p].hr.ready /\ ~cur'[p].hr.done /\ ~cur'[p].hr.err
                                 /\ cur'[p].hr.res.nums = kids
                                 /\ cur'[p].hr.res.kind =
                                        (IF cc.copies = -1 THEN "qid" ELSE "qids")
             /\ (HeadReturns(p) /\ Head(cur[p].calls).op \in {"enqueue", "dequeue"}
                    /\ Head(cur[p].calls).qid < nextQid)
                   => ~cur'[p].hr.err]_vars

\* Main has created two queues of capacity 1 with one call, whose result is
\* the list of the qids 0 and 1.
C29_Witness ==
    /\ pc[0] = "dispatch"
    /\ cur[0].hr.ready
    /\ cur[0].hr.res = QidsRes(<<0, 1>>)
    /\ nextQid = 2
    /\ qcap[0] = 1 /\ qcap[1] = 1
    /\ execCount[0][0] = 1

\* ------------------------------------------------------ failed invocations
\* A handler that checkpoints and whose invocations fail in every way.
NextInvoke ==
    \E p \in Pids :
        \/ StartInvocation(p)
        \/ InvokeErred(p, FailedOutcomes)
        \/ InvokeReturned(p, SingleCallReqs(CheckpointCalls))
        \/ ResultArrived(p)
        \/ RunCheckpoint(p)

SpecInvoke == Init /\ [][NextInvoke]_vars

\* The class of a failed invocation, from what it came to: the platform's
\* timeout, the platform's crash, or anything else that went wrong.
ClassOf(o) ==
    IF o.marshals /\ o.platform = "timeout" THEN "timeout"
    ELSE IF o.marshals /\ o.platform = "crashed" THEN "crashed"
    ELSE "other"

\* The invocation of p fails in this step.
Fails(p) == Completes(p) /\ hist'[p].ret # Outcome("")

\* C30: a failed invocation is one of timeout, crashed and other, and what
\* the driver does follows from the class: after a timeout it restarts the
\* invocation; after a crash it restarts it unless the retry bound is
\* exceeded; after any other error, an output that is no JSON string or
\* does not parse as a Request among them, it raises the fatal error at once
\* and starts no invocation again.
C30_FailureClasses ==
    /\ [](\A o \in FailedOutcomes :
             /\ invoke(o) \in {"timeout", "crashed", "other"}
             /\ invoke(o) = ClassOf(o))
    /\ [][\A p \in Pids :
             Fails(p)
                => LET class == ClassOf(hist'[p].ret) IN
                   /\ s'[p] = s[p]
                   /\ NoCallRuns(p) \/ fatalErr'[p] # fatalErr[p]
                   /\ class = "timeout"
                         => pc'[p] = "top" /\ fatalErr'[p] = ""
                   /\ class = "crashed"
                         => IF numCrashes[p] + 1 > crashRetries
                            THEN pc'[p] = "fatal" /\ fatalErr'[p] = "crashed"
                            ELSE pc'[p] = "top" /\ fatalErr'[p] = ""
                   /\ class = "other"
                         => pc'[p] = "fatal" /\ fatalErr'[p] = "other"]_vars
    /\ [](\A p \in Pids : pc[p] = "fatal" => ~invokeCh[p].active)

\* The handler's output was no JSON string after two crashes: the fatal
\* error is raised at once, with the crash count short of the bound.
C30_Witness ==
    \E p \in Pids :
        /\ hist[p].ret = Outcome("decode")
        /\ sinceAccept[p] = 2
        /\ pc[p] = "fatal"
        /\ fatalErr[p] = "other"
        /\ ~invokeCh[p].active

\* ------------------------------------------------------------- wire sanity
\* What a handler may put on the wire: requests of checkpoints whose calls
\* carry any seqno, above the request's own too.
WireReqs ==
    {Request(n, c, l) : n \in Seqnos, c \in ChkIDs, l \in CallLists(CheckpointCalls)}

\* The bodies the endpoint is sent: one checkpoint of any seqno in a request of
\* seqno 0, and the checkpoint of the largest seqno in a request of its own.
WireBodies ==
    {Request(0, "a", <<c>>) : c \in CheckpointCalls}
        \cup {Request(MaxSeqno, "a", <<CcCheckpoint(MaxSeqno)>>)}

\* common.invoke ends in ParseRequest of the handler's output: the request it
\* returns goes to the driver's sync case, its error is an error of the
\* invocation that is neither a crash nor a timeout.
InvokeDecoded(p, wires) ==
    \E w \in wires :
        IF WellFormed(w)
        THEN InvokeReturned(p, {w})
        ELSE InvokeErred(p, {Outcome("range")})

\* workload.ServeHTTP for a POST whose body is read: ParseRequest of the body
\* (400 on its error), GetProcess (400 for an unknown pid), then the
\* submission to the process's RPC channel.
ServeBody(p, wires) ==
    /\ ~panicked
    /\ Len(tasks) < MaxRPC
    /\ \E w \in wires :
        IF ~WellFormed(w) \/ ~Exists(p)
        THEN /\ tasks' = Append(tasks,
                            [pid |-> p, input |-> HttpInput("POST", TRUE, WellFormed(w)),
                             reply |-> [status |-> 400, body |-> "error", res |-> NilRes],
                             sent |-> w])
             /\ UNCHANGED RPC
        ELSE /\ RPC[p] = <<>>
             /\ tasks' = Append(tasks, [pid |-> p, input |-> GoodInput, reply |-> NoReply,
                                        sent |-> w])
             /\ RPC' = [RPC EXCEPT ![p] = <<[req |-> w, task |-> Len(tasks) + 1]>>]
    /\ UNCHANGED <<ctl, nextPid, panicked, pc, s, numCrashes, invokeCh, Done, Ret, cur, start,
                   fatalErr, queueVars, histVars>>

\* The handlers of this workload send their RPCs to processes that exist.
ServeKnown(p) == Exists(p) /\ ServeBody(p, WireBodies)

NextWire ==
    \E p \in Pids :
        \/ StartInvocation(p)
        \/ InvokeDecoded(p, WireReqs)
        \/ ServeKnown(p)
        \/ RpcArrived(p)
        \/ RpcTimeout(p)
        \/ ResultArrived(p)
        \/ RunCheckpoint(p)

SpecWire == Init /\ [][NextWire]_vars

\* A call of the request carries a seqno above the request's.
OutOfRange(req) == \E i \in 1 .. Len(req.calls) : req.calls[i].seqno > req.seqno

\* C31: no request in a process's RPC channel or under dispatch has a call
\* with a seqno above the request's; a handler output with such a call makes
\* the process raise a fatal error with nothing dispatched; an RPC body with
\* such a call is answered 400 at once, nothing is submitted and no state of
\* any process changes, and every other body for a known pid is submitted
\* as it is.
C31_WireSanity ==
    /\ [](\A p \in Pids :
             /\ RPC[p] # <<>> => ~OutOfRange(Head(RPC[p]).req)
             /\ pc[p] = "dispatch"
                   => \A i \in 1 .. Len(cur[p].calls) :
                          cur[p].calls[i].seqno <= cur[p].req.seqno)
    /\ [][\A p \in Pids :
             (Fails(p) /\ ~hist'[p].ret.inRange)
                => /\ pc'[p] = "fatal"
                   /\ fatalErr'[p] = "other"
                   /\ s' = s /\ cur' = cur /\ execCount' = execCount]_vars
    /\ [][\A t \in 1 .. MaxRPC :
             Called(t)
                => LET k == tasks'[t] IN
                   IF OutOfRange(k.sent)
                   THEN /\ k.reply.status = 400
                        /\ UNCHANGED <<ctl, procVars, queueVars, histVars>>
                   ELSE Exists(k.pid)
                           => /\ k.reply = NoReply
                              /\ RPC'[k.pid] = <<[req |-> k.sent, task |-> t]>>]_vars

\* An RPC whose only call has seqno 1 in a request of seqno 0 was answered
\* 400, and the same request as the handler's output was fatal.
C31_Witness ==
    \E p \in Pids :
        /\ Len(tasks) = 1
        /\ tasks[1].pid = p
        /\ tasks[1].sent = Request(0, "a", <<CcCheckpoint(1)>>)
        /\ tasks[1].reply.status = 400
        /\ pc[p] = "fatal"
        /\ fatalErr[p] = "other"
        /\ ~hist[p].ret.inRange
        /\ s[p].nextSeqno = 0

\* ------------------------------------------------------- the invocations
\* A workload whose main process spawns one child and checkpoints, and whose
\* child exits; the handlers send checkpoints as RPCs too, and invocations
\* may time out.
FirstReqs(p) ==
    IF p = 0
    THEN {Request(0, "a", <<CcSpawn(0, <<>>, <<>>, FALSE, 1)>>),
          Request(MaxSeqno, "b", <<CcCheckpoint(MaxSeqno)>>)}
    ELSE {Request(0, "a", <<CcExit(0, "a")>>)}
FirstRpcReqs == {Request(n, "b", <<CcCheckpoint(n)>>) : n \in Seqnos}

NextFirst ==
    \E p \in Pids :
        \/ StartInvocation(p)
        \/ InvokeTimedOut(p)
        \/ InvokeReturned(p, FirstReqs(p))
        \/ ServeHTTP(p, FirstRpcReqs)
        \/ RpcArrived(p)
        \/ RpcTimeout(p)
        \/ ResultArrived(p)
        \/ RunCheckpoint(p)
        \/ RunSpawn(p)
        \/ ChildStart(p)
        \/ RunExit(p)
        \/ CloseDone(p)

SpecFirst == Init /\ [][NextFirst]_vars

\* The driver of p starts an invocation in this step.
Starts(p) == ~invokeCh[p].active /\ invokeCh'[p].active

\* The driver of p takes an RPC from its channel in this step.
TakesRpc(p) == RPC[p] # <<>> /\ RPC'[p] = <<>>

\* C32: an outstanding invocation is never replaced by another one; an
\* invocation is started only when none is outstanding and carries the
\* driver's pid, nextSeqno, chkID and last result, its application event and
\* its target; until its first invocation has completed a process's
\* invocation carries seqno 0, for the main process with pid 0, the empty
\* checkpoint id, a null result and the application event of the user, for
\* a spawned child with no application event; the step that takes an RPC
\* finds an invocation outstanding and leaves it as it is.
C32_OneInvocation ==
    /\ [][\A p \in Pids :
             /\ (invokeCh[p].active /\ invokeCh'[p].active) => invokeCh'[p] = invokeCh[p]
             /\ Starts(p)
                   => /\ invokeCh'[p].pid = p
                      /\ invokeCh'[p].seqno = s[p].nextSeqno
                      /\ invokeCh'[p].chkID = s[p].chkID
                      /\ invokeCh'[p].res = s[p].res
                      /\ invokeCh'[p].appEv = (IF p = 0 THEN "event" ELSE "")
                      /\ invokeCh'[p].target = start[p].target
             /\ TakesRpc(p) => invokeCh[p].active /\ invokeCh' = invokeCh]_vars
    /\ [](\A p \in Pids :
             (invokeCh[p].active /\ hist[p].last = "")
                => /\ invokeCh[p].seqno = 0
                   /\ p = 0 => /\ invokeCh[p].pid = 0
                                /\ invokeCh[p].chkID = nullChkID
                                /\ invokeCh[p].res = NilRes
                                /\ invokeCh[p].appEv = "event"
                   /\ p # 0 => invokeCh[p].appEv = "")

\* Main took an RPC during its second invocation, which is still outstanding
\* and carries the state it was started with, while the driver's state has
\* advanced; the child is in its first invocation.
C32_Witness ==
    /\ invokeCh[0].active
    /\ invokeCh[0].seqno = 1
    /\ invokeCh[0].appEv = "event"
    /\ s[0].nextSeqno = 2
    /\ Len(tasks) = 1 /\ tasks[1].pid = 0 /\ tasks[1].reply.status = 200
    /\ invokeCh[1].active /\ hist[1].last = "" /\ invokeCh[1].seqno = 0

\* ------------------------------------------------- unknown predecessors
\* Main spawns a child and then spawns, or maps over one element, with a
\* predecessor list that names a pid no process has (MaxProcs), or waits for
\* that pid; a child exits.
DepCalls ==
    {CcSpawn(1, <<MaxProcs>>, <<>>, FALSE, 1), CcSpawn(1, <<>>, <<1, MaxProcs>>, FALSE, 1),
     CcMapSpawn(1, <<MaxProcs>>, <<>>, <<"a">>), CcMapSpawn(1, <<1>>, <<MaxProcs>>, <<"a">>),
     CcWait(1, MaxProcs)}
DepReqs(p) ==
    IF p = 0
    THEN {Request(0, "a", <<CcSpawn(0, <<>>, <<>>, FALSE, 1)>>)}
             \cup {Request(1, "a", <<c>>) : c \in DepCalls}
    ELSE {Request(0, "a", <<CcExit(0, "c")>>)}

NextDeps ==
    \E p \in Pids :
        \/ StartInvocation(p)
        \/ InvokeReturned(p, DepReqs(p))
        \/ ResultArrived(p)
        \/ RunExit(p)
        \/ CloseDone(p)
        \/ RunSpawn(p)
        \/ RunMapSpawn(p)
        \/ MapSpawnReturns(p)
        \/ ChildStart(p)
        \/ WaiterPanics(p)
        \/ RunWait(p)
        \/ RunSeesFatal(p)

SpecDeps == Init /\ [][NextDeps]_vars

\* The predecessor lists of child c name a pid that no process has.
NamesUnknownDep(c) ==
    /\ pc[c] # "absent"
    /\ \E i \in 1 .. Len(Deps(c)) : ~Exists(Deps(c)[i])

\* C33: when the await_pids or future_pids of a spawn or map_spawn name a
\* pid that is not in the process table, the coordinator does not crash and
\* the child is never run: the error is a fatal error of the workload, as it
\* is for a wait on such a pid.
C33_UnknownDepIsFatal ==
    \A c \in Pids :
        NamesUnknownDep(c) => ~panicked /\ pc[c] \in {"waiting", "fatal", "failed"}

\* -------------------------------------------------------- the RPC timer
\* One process whose handler sends, both ways, requests of one call: a
\* checkpoint, a wait for a pid no process has, or a wait for the process
\* itself, which never gives a result.
TimerCalls ==
    UNION {{CcCheckpoint(n), CcWait(n, MaxProcs), CcWait(n, 0)} : n \in Seqnos}
TimerReqs == {Request(c.seqno, "a", <<c>>) : c \in TimerCalls}

NextTimer ==
    \E p \in Pids :
        \/ StartInvocation(p)
        \/ InvokeReturned(p, TimerReqs)
        \/ ServeHTTP(p, TimerReqs)
        \/ RpcArrived(p)
        \/ RpcTimeout(p)
        \/ ResultArrived(p)
        \/ RunCheckpoint(p)
        \/ RunWait(p)

SpecTimer == Init /\ [][NextTimer]_vars

\* Time passes and every goroutine that can take a step takes it: the timer
\* of an accepted RPC fires unless the result came first, and a result that
\* is there is read.
TimerFairness ==
    \A p \in Pids :
        /\ WF_vars(StartInvocation(p))
        /\ WF_vars(RpcTimeout(p))
        /\ WF_vars(ResultArrived(p))
        /\ WF_vars(RunCheckpoint(p))
        /\ WF_vars(RunWait(p))

SpecTimerFair == SpecTimer /\ TimerFairness

\* The driver of p has taken an RPC with seqno >= nextSeqno and has not
\* answered it.
Pending(p) == pc[p] = "dispatch" /\ cur[p].via = "rpc" /\ ~cur[p].replied

InDispatch(p) == cur[p].via # ""

\* C35: while a request of a process is dispatched, from the step that takes
\* it up (sync or RPC) to the step that reads its result, a would-block
\* reply in between or not, the driver reads no invocation result and takes
\* no RPC, the request under dispatch stays the same and the run-state is
\* not touched; a call is run only for the request under dispatch and only
\* when the call before it has produced its result; a request an
\* invocation returns is read when nothing is under dispatch, and is
\* discarded or taken up by the nextSeqno the requests before it have left.
C35_OneRequestAtATime ==
    /\ [](\A p \in Pids : InDispatch(p) => pc[p] = "dispatch")
    /\ [][\A p \in Pids :
             InDispatch(p)
                => /\ invokeCh'[p] = invokeCh[p]
                   /\ hist'[p] = hist[p]
                   /\ RPC[p] # <<>> => RPC'[p] = RPC[p]
                   /\ IF InDispatch(p)'
                      THEN /\ cur'[p].req = cur[p].req
                           /\ cur'[p].via = cur[p].via
                           /\ cur'[p].task = cur[p].task
                           /\ s'[p] = s[p]
                      ELSE cur[p].hr.ready]_vars
    /\ [][\A p \in Pids :
             execCount'[p] # execCount[p]
                => InDispatch(p) /\ cur[p].phase = "run" /\ ~cur[p].hr.ready]_vars
    /\ [][\A p \in Pids :
             (Completes(p) /\ hist'[p].last = "request")
                => /\ ~InDispatch(p)
                   /\ IF hist'[p].seqno < s[p].nextSeqno
                      THEN pc'[p] = "top" /\ ~InDispatch(p)' /\ s'[p] = s[p]
                      ELSE pc'[p] \in {"dispatch", "fatal"}]_vars

\* An RPC with seqno 0 was taken while the invocation was outstanding, was
\* answered would-block and its result applied; the request with seqno 0 the
\* invocation returned was read afterwards and discarded.
C35_Witness ==
    \E p \in Pids :
        /\ Len(tasks) = 1
        /\ tasks[1].pid = p
        /\ tasks[1].reply.status = 202
        /\ s[p].nextSeqno = 1
        /\ updCount[p][0] = 1
        /\ hist[p].last = "request"
        /\ hist[p].seqno = 0
        /\ outdatedLog[p].via = "sync"
        /\ ~InDispatch(p)

\* ------------------------------------------------ validation before run
\* A workload whose requests, sent both ways, list a valid call before one
\* that does not parse, or a call that does not parse and is stale once the
\* process has advanced before a valid one; a request that creates the
\* queue lets the process advance.  A child's handler returns one request,
\* an enqueue before an unknown operation, and sends no RPC.
ValidateReqs(p) ==
    IF p # 0 THEN {Request(0, "a", <<CcEnqueue(0, 0, <<"b">>), CcUnknown(0)>>)} ELSE
    {Request(0, "a", <<CcCreateQueue(0, 1, -1)>>),
     Request(0, "a", <<CcCreateQueue(0, 1, -1), CcUnknown(0)>>),
     Request(1, "a", <<CcUnknown(0), CcEnqueue(1, 0, <<"a">>)>>),
     Request(1, "a", <<CcUnknown(0), CcSpawn(1, <<>>, <<>>, FALSE, 1)>>),
     Request(1, "a", <<CcSpawn(1, <<>>, <<>>, FALSE, 1), CcUnknown(1)>>),
     Request(1, "a", <<CcEnqueue(1, 0, <<"a">>), BadParams(CcCheckpoint(1))>>)}

NextValidate ==
    \E p \in Pids :
        \/ StartInvocation(p)
        \/ InvokeReturned(p, ValidateReqs(p))
        \/ ServeHTTP(p, IF p = 0 THEN ValidateReqs(p) ELSE {})
        \/ RpcArrived(p)
        \/ RpcTimeout(p)
        \/ ResultArrived(p)
        \/ RunCreateQueue(p)
        \/ RunEnqueue(p)
        \/ EnqueueStep(p)
        \/ RunSpawn(p)
        \/ ChildStart(p)

SpecValidate == Init /\ [][NextValidate]_vars

\* A call of the request that is not stale for a process expecting seqno n
\* has an operation that is not known or params that do not decode.
HasInvalidCall(req, n) ==
    \E i \in 1 .. Len(req.calls) :
        /\ req.calls[i].seqno >= n
        /\ req.calls[i].op \notin ccMap \/ req.calls[i].badParams

\* What no step does when a request is refused: run a call, create a
\* process or a queue, change a queue, or advance a run-state.
NothingRuns ==
    UNCHANGED <<nextPid, start, queueVars, execCount, enqLog, deqLog, s, cur, Done, Ret>>

\* C36: a request is dispatched only when every call of it that is not stale
\* parses. An RPC request with a call that is not stale and does not parse
\* is answered with an error and makes the process raise a fatal error, and
\* in the step that raises the parse error on either path no call is run,
\* no process or queue is created and no queue changes, whatever valid calls
\* the request lists before the invalid one; the process runs no call
\* afterwards. A request whose invalid calls are all stale is dispatched.
C36_ValidatedBeforeRun ==
    /\ [](\A p \in Pids :
             \A i \in 1 .. Len(cur[p].calls) :
                 cur[p].calls[i].op \in ccMap /\ ~cur[p].calls[i].badParams)
    /\ [][\A p \in Pids :
             /\ (TakesRpc(p) /\ Head(RPC[p]).req.seqno >= s[p].nextSeqno)
                    => IF HasInvalidCall(Head(RPC[p]).req, s[p].nextSeqno)
                       THEN /\ RaisesFatal(p)
                            /\ fatalErr'[p] = "parse"
                            /\ tasks'[Head(RPC[p]).task].reply.status = 400
                       ELSE pc'[p] = "dispatch"
             /\ (RaisesFatal(p) /\ fatalErr'[p] = "parse") => NothingRuns
             /\ pc[p] = "fatal"
                    => /\ execCount'[p] = execCount[p]
                       /\ cur'[p] = cur[p]
                       /\ s'[p] = s[p]]_vars

\* Main created the queue and advanced; the RPC that lists an enqueue before
\* a checkpoint with undecodable params was answered 400, nothing was
\* enqueued and main raised the parse error.
C36_Witness ==
    /\ nextQid = 1
    /\ s[0].nextSeqno = 1
    /\ Len(tasks) = 1
    /\ tasks[1].pid = 0
    /\ tasks[1].reply.status = 400
    /\ pc[0] = "fatal"
    /\ fatalErr[0] = "parse"
    /\ enqLog[0][0] = <<>>
    /\ qbuf[0] = <<>>
    /\ execCount[0][1] = 0

\* ------------------------------------------- requests with nothing to run
\* One process whose handler sends, both ways, requests with no call, a
\* request that creates a queue, and requests whose only call has seqno 0,
\* which is stale once the process has advanced.
EmptyReqs ==
    {Request(n, c, <<>>) : n \in Seqnos, c \in {"a", "b"}}
        \cup {Request(0, "a", <<CcCreateQueue(0, 1, -1)>>),
              Request(MaxSeqno, "b", <<CcCreateQueue(0, 1, -1)>>),
              Request(MaxSeqno, "b", <<CcUnknown(0)>>)}

NextEmpty ==
    \E p \in Pids :
        \/ StartInvocation(p)
        \/ InvokeReturned(p, EmptyReqs)
        \/ ServeHTTP(p, EmptyReqs)
        \/ RpcArrived(p)
        \/ RpcTimeout(p)
        \/ ResultArrived(p)
        \/ RunCreateQueue(p)

SpecEmpty == Init /\ [][NextEmpty]_vars

\* No call of the request is at or above seqno n.
NoExecutable(req, n) == \A i \in 1 .. Len(req.calls) : req.calls[i].seqno < n

\* The result of a request that had nothing to run is waiting for p's driver.
NothingToRun(p) ==
    /\ InDispatch(p)
    /\ cur[p].hr = Hr(NilRes, FALSE, FALSE)
    /\ \A n \in HistSeqnos : n >= s[p].nextSeqno => execCount[p][n] = 0

\* What holds of a request with nothing to run apart from the RPC reply: an
\* RPC request at or above nextSeqno whose calls are all below it is taken up
\* with a null result that is there at once; while that result waits nothing
\* is run and only the RPC timer can act; when the driver reads it the
\* run-state becomes (null, req.seqno + 1, req.chk_id) and no fatal error is
\* raised.
HandledAsSuccess ==
    [][\A p \in Pids :
          /\ (TakesRpc(p) /\ Head(RPC[p]).req.seqno >= s[p].nextSeqno
                  /\ NoExecutable(Head(RPC[p]).req, s[p].nextSeqno))
                 => /\ NothingToRun(p)'
                    /\ cur'[p].req.seqno = Head(RPC[p]).req.seqno
                    /\ cur'[p].req.chkID = Head(RPC[p]).req.chkID
                    /\ UNCHANGED <<s, execCount, queueVars, nextPid>>
          /\ (TakesUp(p) /\ cur'[p].calls = <<>>) => NothingToRun(p)'
          /\ NothingToRun(p)
                 => /\ UNCHANGED <<execCount, queueVars, nextPid>>
                    /\ IF InDispatch(p)'
                       THEN s'[p] = s[p] /\ (cur'[p] # cur[p] => TimesOut(p))
                       ELSE /\ s'[p] = RunState(NilRes, cur[p].req.seqno + 1,
                                                 cur[p].req.chkID)
                            /\ pc'[p] \in {"top", "select"}
                            /\ fatalErr'[p] = ""]_vars

\* C37 as stated: a request at or above nextSeqno with no call, or with
\* calls below nextSeqno only, runs nothing and is handled as a success: the
\* run-state becomes (null, req.seqno + 1, req.chk_id), and on the RPC path
\* the caller receives a null result.
C37_EmptyRequestNullReply ==
    /\ HandledAsSuccess
    /\ [][\A p \in Pids :
             (NothingToRun(p) /\ cur[p].via = "rpc" /\ ~InDispatch(p)')
                => tasks'[cur[p].task].reply
                       = [status |-> 200, body |-> "json", res |-> NilRes]]_vars

\* C37, amended: a request at or above nextSeqno with no call, or with calls
\* below nextSeqno only, runs nothing and is handled as a success: the
\* run-state becomes (null, req.seqno + 1, req.chk_id); on the RPC path the
\* caller receives a null result when the driver reads the result before its
\* RPC timer fires, and would-block, with no reply after it, when the timer
\* fires first.
C37_EmptyRequestHandled ==
    /\ HandledAsSuccess
    /\ [][\A p \in Pids :
             (NothingToRun(p) /\ cur[p].via = "rpc" /\ ~InDispatch(p)')
                => tasks'[cur[p].task].reply
                       = (IF cur[p].replied
                          THEN [status |-> 202, body |-> "", res |-> NilRes]
                          ELSE [status |-> 200, body |-> "json", res |-> NilRes])]_vars

\* The process created the queue, so its last result was a qid; then an RPC
\* of the largest seqno whose only call has seqno 0 was answered with a null
\* result and the run-state advanced past it with a null last result.
C37_Witness ==
    \E p \in Pids :
        /\ nextQid = 1
        /\ execCount[p][0] = 1
        /\ Len(tasks) = 1
        /\ tasks[1].pid = p
        /\ tasks[1].reply = [status |-> 200, body |-> "json", res |-> NilRes]
        /\ s[p] = RunState(NilRes, MaxSeqno + 1, "b")
        /\ updCount[p][0] = 1
        /\ updCount[p][MaxSeqno] = 1

\* ------------------------------------------------- a process that gave up
\* Main spawns one child, blocking or not, and then waits for it or spawns a
\* second child that names the first in await_pids or in future_pids; a
\* child exits, or its invocation fails with an error that is neither a crash
\* nor a timeout, or it waits for a pid no process has.
OrphanReqs(p) ==
    IF p = 0
    THEN {Request(0, "a", <<CcSpawn(0, <<>>, <<>>, FALSE, 1)>>),
          Request(0, "a", <<CcSpawn(0, <<>>, <<>>, TRUE, 1)>>),
          Request(1, "a", <<CcWait(1, 1)>>),
          Request(1, "a", <<CcSpawn(1, <<>>, <<1>>, FALSE, 1)>>),
          Request(1, "a", <<CcSpawn(1, <<1>>, <<>>, FALSE, 1)>>)}
    ELSE {Request(0, "a", <<CcExit(0, "c")>>),
          Request(0, "a", <<CcWait(0, MaxProcs)>>)}

NextOrphan ==
    \E p \in Pids :
        \/ StartInvocation(p)
        \/ InvokeFailed(p)
        \/ InvokeReturned(p, OrphanReqs(p))
        \/ ResultArrived(p)
        \/ RunSpawn(p)
        \/ ChildStart(p)
        \/ SpawnDone(p)
        \/ RunWait(p)
        \/ WaitDone(p)
        \/ RunExit(p)
        \/ CloseDone(p)
        \/ RunSeesFatal(p)

SpecOrphan == Init /\ [][NextOrphan]_vars

\* The driver of p called p.fatal: it is in the send, or has returned.
GaveUp(p) == pc[p] \in {"fatal", "failed"}

\* The goroutine of q's wait call is in `<-pWait.Done` for p.
WaitsFor(q, p) ==
    /\ pc[q] = "dispatch"
    /\ cur[q].phase = "await"
    /\ Head(cur[q].calls).op = "wait"
    /\ Head(cur[q].calls).pid = p

\* The goroutine of q's blocking spawn is in the loop over the children it
\* created, and p is one of them.
BlocksOn(q, p) ==
    /\ pc[q] = "dispatch"
    /\ cur[q].phase = "await"
    /\ Head(cur[q].calls).op = "spawn"
    /\ p \in Range(cur[q].made)

\* The waiter of child c has p in its await_pids or future_pids.
HeldBy(c, p) ==
    /\ pc[c] = "waiting"
    /\ \E i \in 1 .. Len(Deps(c)) : Deps(c)[i] = p

\* C38: a process whose driver ended in a fatal error never closes its Done:
\* Done is open when the driver gives up and in every later state, the
\* driver never runs again, and so a wait on the process, a spawn waiter that
\* names it in await_pids or future_pids and a blocking spawn that created it
\* stay where they are and never produce their result.
C38_FatalLeavesDoneOpen ==
    /\ [](\A p \in Pids : GaveUp(p) => ~Done[p] /\ closeCount[p] = 0)
    /\ [][\A p \in Pids :
            GaveUp(p) =>
                /\ GaveUp(p)'
                /\ ~Done'[p]
                /\ \A q \in Pids :
                    /\ WaitsFor(q, p) => WaitsFor(q, p)' /\ cur'[q] = cur[q]
                    /\ BlocksOn(q, p) => BlocksOn(q, p)' /\ cur'[q] = cur[q]
                    /\ HeldBy(q, p) => HeldBy(q, p)' /\ s'[q] = s[q]]_vars

\* The first child has given up and its driver has returned; main is in a
\* wait for it.
C38_Witness ==
    /\ pc[1] = "failed"
    /\ ~Done[1]
    /\ WaitsFor(0, 1)

\* --------------------------------------------- the end of workload.Run
\* Some process other than main has not completed: it is not started yet,
\* running, blocked, or has given up.
OthersUnfinished == \E q \in Pids \ {0} : Exists(q) /\ ~Done[q]

\* C39: workload.Run returns once main's Done is closed, whatever the other
\* processes are doing: with Done closed the `case <-p.Done` of its select
\* can be taken, and Run does return; when it reports main's result the other
\* processes were left untouched, finished or not; after Run has returned no
\* fatal error is taken from the sink, so what Run returned stays and a
\* process in p.fatal stays there.
C39_RunWaitsForMainOnly ==
    /\ []((Done[0] /\ ctl.state = "running") => ENABLED RunSeesDone)
    /\ Done[0] ~> (ctl.state # "running")
    /\ [][/\ (RunReturns /\ ctl'.outcome # "fatal")
                => (Done[0] /\ pc' = pc /\ Done' = Done /\ Ret' = Ret)
          /\ (ctl.state # "running")
                => (/\ ctl'.outcome = ctl.outcome
                    /\ ctl'.value = ctl.value
                    /\ ctl'.from = ctl.from
                    /\ \A p \in Pids : pc[p] = "fatal" => pc'[p] = "fatal")]_vars

\* Run has returned main's result while one child is not started yet and the
\* other is in p.fatal with an error nobody takes.
C39_Witness ==
    /\ ctl.state \in {"returned", "finalized"}
    /\ ctl.outcome = "result"
    /\ OthersUnfinished
    /\ pc[1] = "waiting"
    /\ pc[2] = "fatal"

\* ------------------------------------------------ one process, one state
\* This step is a step of process p: of its driver (an invocation came
\* back, an RPC was taken, a result was handled), of a call it runs, or of
\* the waiter that starts it.
Acts(p) ==
    \/ pc'[p] # pc[p]
    \/ cur'[p] # cur[p]
    \/ invokeCh'[p] # invokeCh[p]
    \/ numCrashes'[p] # numCrashes[p]
    \/ Len(RPC'[p]) < Len(RPC[p])

\* This step leaves q's run-state, return value and Done as they are.
Untouched(q) == s'[q] = s[q] /\ Ret'[q] = Ret[q] /\ Done'[q] = Done[q]

\* C40: handling a request of process p changes only p's own state: a step
\* of p leaves nextSeqno, lastResult and chkID, the return value and Done of
\* every other process as they are; and a step that changes these for a
\* process is a step of that process, and of no other process that exists.
C40_OwnStateOnly ==
    [][\A q \in Pids :
          /\ (\E p \in Pids \ {q} : Acts(p) /\ pc[p] \notin {"absent"}) => Untouched(q)
          /\ ~Untouched(q) => Acts(q)]_vars

\* The child has exited and main, which has taken an RPC, has handled its
\* last request: both have a state of their own.
C40_Witness ==
    /\ Done[1] /\ Ret[1] = "a"
    /\ ~Done[0] /\ Ret[0] # "a"
    /\ s[0].nextSeqno = MaxSeqno + 1 /\ s[0].chkID = "b"
    /\ s[1].nextSeqno = 0
    /\ \E t \in 1 .. Len(tasks) : tasks[t].pid = 0 /\ tasks[t].reply.status = 200

====
